---- MODULE Spec2Model ----
(***************************************************************************)
(* Model of the recipe detection / ingredient extraction pipeline of       *)
(* src/src/services/recipe_detector.py (RecipeDetectorService): response   *)
(* parsing with keyword fallback, result validation, the TTL cache and the *)
(* detect -> extract orchestration.                                        *)
(* The confidence of a search result (src/src/services/rag_service.py) is  *)
(* modelled next to it.  Three specifications share the variables: Spec    *)
(* (the service called with one language preference), SpecKeys (both       *)
(* language preferences) and SpecFn (the parsing and validation functions  *)
(* applied to drawn arguments).                                            *)
(*                                                                         *)
(* Conventions                                                             *)
(*  - A Python string is a sequence of tokens (TLA+ strings); a token is a *)
(*    chunk of text.  " " is whitespace.                                   *)
(*  - A JSON / Python value is a record [t, n, s]: t is the type tag, n    *)
(*    the number (bool: 0/1), s the text of a str.                         *)
(*  - Confidences are fixed-point hundredths: 70 is 0.7, 150 is 1.5.       *)
(*  - Time is in whole seconds.                                            *)
(***************************************************************************)
EXTENDS Integers, Sequences, FiniteSets, TLC

(***************************************************************************)
(* Python values                                                           *)
(***************************************************************************)
Val(t, n, s) == [t |-> t, n |-> n, s |-> s]
Missing   == Val("missing", 0, <<>>)    \* key absent from the dict
Null      == Val("null", 0, <<>>)       \* JSON null / Python None
Bool(b)   == Val("bool", IF b THEN 1 ELSE 0, <<>>)
Num(k)    == Val("num", k, <<>>)
NaN       == Val("nan", 0, <<>>)        \* json.loads accepts the literal NaN
Str(s)    == Val("str", 0, s)
List(k)   == Val("list", k, <<>>)       \* a list of k opaque elements

\* dict.get(key, default)
Get(d, key, default) == IF d[key] = Missing THEN default ELSE d[key]

\* bool(v)
Truthy(v) ==
    CASE v.t = "missing" -> FALSE
      [] v.t = "null"    -> FALSE
      [] v.t = "bool"    -> v.n = 1
      [] v.t = "num"     -> v.n # 0
      [] v.t = "nan"     -> TRUE
      [] v.t = "str"     -> v.s # <<>>
      [] v.t = "list"    -> v.n > 0
      [] OTHER           -> TRUE

Whitespace == {" "}

RECURSIVE LStrip(_)
LStrip(s) == IF s # <<>> /\ Head(s) \in Whitespace THEN LStrip(Tail(s)) ELSE s

RECURSIVE RStrip(_)
RStrip(s) == IF s # <<>> /\ s[Len(s)] \in Whitespace
             THEN RStrip(SubSeq(s, 1, Len(s) - 1)) ELSE s

\* str.strip()
Strip(s) == RStrip(LStrip(s))

Digit(k) == CASE k = 0 -> "0" [] k = 1 -> "1" [] k = 2 -> "2" [] k = 3 -> "3"
              [] k = 4 -> "4" [] k = 5 -> "5" [] k = 6 -> "6" [] k = 7 -> "7"
              [] k = 8 -> "8" [] OTHER -> "9"

RECURSIVE Digits(_)
Digits(k) == IF k < 10 THEN <<Digit(k)>> ELSE Append(Digits(k \div 10), Digit(k % 10))

\* str(v) of a JSON value (a num here is a JSON integer)
PyStr(v) ==
    CASE v.t = "str"  -> v.s
      [] v.t = "null" -> <<"None">>
      [] v.t = "bool" -> IF v.n = 1 THEN <<"True">> ELSE <<"False">>
      [] v.t = "num"  -> IF v.n < 0 THEN <<"-">> \o Digits(-v.n) ELSE Digits(v.n)
      [] v.t = "nan"  -> <<"nan">>
      [] v.t = "list" -> <<"[">> \o [i \in 1..v.n |-> "e"] \o <<"]">>
      [] OTHER        -> <<>>

\* Outcome of a computation: a value or a raised exception
Ok(v)      == [ok |-> TRUE, val |-> v, err |-> ""]
ReturnError(e) == [ok |-> TRUE, val |-> Null, err |-> e]

Raise(e) == [ok |-> FALSE, val |-> Null, err |-> e]

(***************************************************************************)
(* Numbers: max(0.0, min(1.0, v)) as Python evaluates it                   *)
(***************************************************************************)
IsNumber(v) == v.t \in {"num", "bool", "nan"}

\* numeric value in hundredths (True is 1.0, False is 0.0)
NumOf(v) == IF v.t = "bool" THEN 100 * v.n ELSE v.n

\* a < b on Python numbers: every comparison with NaN is False
PyLess(a, b) == a.t # "nan" /\ b.t # "nan" /\ NumOf(a) < NumOf(b)

\* min(a, b): keeps a unless b < a;  max(a, b): keeps a unless b > a
PyMin(a, b) == IF PyLess(b, a) THEN b ELSE a
PyMax(a, b) == IF PyLess(a, b) THEN b ELSE a

\* max(0.0, min(1.0, v)); TypeError when v cannot be ordered against a float
clamp01_no_upper(v) ==
    IF IsNumber(v) THEN Ok(Num(NumOf(PyMax(Num(0), v)))) ELSE Raise("TypeError")

clamp01(v) ==
    IF IsNumber(v) THEN Ok(Num(NumOf(PyMax(Num(0), PyMin(Num(100), v)))))
    ELSE Raise("TypeError")

recipe_confidence_threshold == 70
ingredient_confidence_threshold == 60


(***************************************************************************)
(* Model replies.  A reply is a sequence of tokens; the token "m" stands   *)
(* for the member text of a JSON object ("key": value, ...), whose decoded *)
(* content is the accompanying dict.                                       *)
(***************************************************************************)
\* ingredients value of a decoded dict: tag and, for a list, its entries
Ingr(t, items) == [t |-> t, items |-> items]
NoIngr == Ingr("missing", <<>>)

\* a list entry: a dict with optional name/quantity/unit/notes, or not a dict
Entry(name, quantity, unit, notes) ==
    [isdict |-> TRUE, name |-> name, quantity |-> quantity, unit |-> unit, notes |-> notes]
NonDictEntry ==
    [isdict |-> FALSE, name |-> Missing, quantity |-> Missing, unit |-> Missing, notes |-> Missing]

Dict(ir, cf, rs, de, lg, sv, ing) ==
    [is_recipe |-> ir, confidence |-> cf, reason |-> rs, detected_elements |-> de,
     language |-> lg, serving_size |-> sv, ingredients |-> ing]

EmptyDict == Dict(Missing, Missing, Missing, Missing, Missing, Missing, NoIngr)

\* str.lower() on a token
Lower(tok) == CASE tok = "Recipe" -> "recipe"
                [] tok = "BAKE"   -> "bake"
                [] tok = "Ingredients" -> "ingredients"
                [] tok = "R"      -> "r"
                [] tok = "LOCALHOST" -> "localhost"
                [] OTHER          -> tok

\* the seven fallback keywords: recipe, ingredient, cook, bake and the
\* Japanese words for material, recipe, how-to-make (romanised token names)
FallbackKeywords == {"recipe", "ingredient", "cook", "bake",
                     "zairyou", "reshipi", "tsukurikata"}

\* tokens made of characters in U+3040-309F, U+30A0-30FF or U+4E00-9FAF
JapaneseTokens == {"zairyou", "reshipi", "tsukurikata", "hiragana", "katakana", "kanji"}

\* re.search over the Hiragana, Katakana and Kanji ranges
detect_japanese(text) == \E i \in 1..Len(text) : text[i] \in JapaneseTokens

\* re.search(r'\{.*\}', response, re.DOTALL): greedy, from the first "{"
\* to the last "}" after it; <<>> when there is no match
re_search_braces(response) ==
    LET opens  == {i \in 1..Len(response) : response[i] = "{"}
        closes == {i \in 1..Len(response) : response[i] = "}"}
    IN IF opens = {} \/ closes = {} THEN <<>>
       ELSE LET first == CHOOSE i \in opens  : \A j \in opens  : i <= j
                last  == CHOOSE i \in closes : \A j \in closes : i >= j
            IN IF first < last THEN SubSeq(response, first, last) ELSE <<>>

\* json.loads on a brace-delimited span: only "{}" and "{" members "}" decode
json_loads(span, members) ==
    IF span = <<"{", "}">> THEN Ok(EmptyDict)
    ELSE IF span = <<"{", "m", "}">> THEN Ok(members)
    ELSE Raise("JSONDecodeError")

ContainsKeywordCaseSensitive(response) ==
    \E i \in 1..Len(response) : response[i] \in FallbackKeywords

\* any(keyword in response.lower() for keyword in [...])
ContainsKeyword(response) ==
    \E i \in 1..Len(response) : Lower(response[i]) \in FallbackKeywords

fallback_parse_confident(response) ==
    Dict(Bool(ContainsKeyword(response)),
         Num(90),
         Str(<<"Fallback parsing due to JSON parsing error">>),
         List(0),
         Str(IF detect_japanese(response) THEN <<"ja">> ELSE <<"en">>),
         Missing, NoIngr)

\* _fallback_parse_response: the keyword verdict with confidence 0.5
fallback_parse_response(response) ==
    Dict(Bool(ContainsKeyword(response)),
         Num(50),
         Str(<<"Fallback parsing due to JSON parsing error">>),
         List(0),
         Str(IF detect_japanese(response) THEN <<"ja">> ELSE <<"en">>),
         Missing, NoIngr)

parse_ai_response(response, members) ==
    LET json_match == re_search_braces(response)
    IN IF json_match # <<>>
       THEN LET d == json_loads(json_match, members)
            IN IF d.ok THEN d.val ELSE fallback_parse_response(response)
       ELSE fallback_parse_response(response)

(***************************************************************************)
(* Validation                                                              *)
(***************************************************************************)
ThresholdNote == " (Below confidence threshold: 0.7)"

\* len(ThresholdNote) in characters
ThresholdNoteLen == 34

\* validated["reason"] += "..." : str concatenates, list is extended by the
\* characters of the note, anything else raises TypeError
AppendNote(reason) ==
    CASE reason.t = "str"  -> Ok(Str(Append(reason.s, ThresholdNote)))
      [] reason.t = "list" -> Ok(List(reason.n + ThresholdNoteLen))
      [] OTHER             -> Raise("TypeError")

BelowIngredientThreshold(confidence) == confidence < ingredient_confidence_threshold

\* validated["confidence"] < self.recipe_confidence_threshold
BelowThreshold(confidence) == confidence < recipe_confidence_threshold

validate_detection_result(result) ==
    LET c      == clamp01(Get(result, "confidence", Num(0)))
        flag   == Get(result, "is_recipe", Bool(FALSE))
        reason == Get(result, "reason", Str(<<"No reason provided">>))
        elems  == Get(result, "detected_elements", List(0))
        lang   == Get(result, "language", Str(<<"en">>))
    IN IF ~c.ok THEN c
       ELSE IF BelowThreshold(c.val.n)
       THEN LET r == AppendNote(reason)
            IN IF ~r.ok THEN r
               ELSE Ok([is_recipe |-> Bool(FALSE), confidence |-> c.val.n,
                        reason |-> r.val, detected_elements |-> elems, language |-> lang])
       ELSE Ok([is_recipe |-> flag, confidence |-> c.val.n,
                reason |-> reason, detected_elements |-> elems, language |-> lang])


\* one cleaned ingredient record: every field str()-ed and stripped
CleanIngredient(e) ==
    [name     |-> Strip(PyStr(Get(e, "name", Str(<<>>)))),
     quantity |-> Strip(PyStr(Get(e, "quantity", Str(<<>>)))),
     unit     |-> Strip(PyStr(Get(e, "unit", Str(<<>>)))),
     notes    |-> Strip(PyStr(Get(e, "notes", Str(<<>>))))]

IsDictOnly(e) == e.isdict

\* isinstance(ingredient, dict) and ingredient.get("name")
PassesNameCheck(e) == e.isdict /\ Truthy(e.name)

\* if cleaned_ingredient["name"]: validated_ingredients.append(cleaned_ingredient)
AppendIfNamed(validated_ingredients, cleaned_ingredient) ==
    IF cleaned_ingredient.name # <<>>
    THEN Append(validated_ingredients, cleaned_ingredient)
    ELSE validated_ingredients

\* the loop of _validate_ingredient_result over the list entries
RECURSIVE CleanIngredients(_, _)
CleanIngredients(validated_ingredients, items) ==
    IF items = <<>> THEN validated_ingredients
    ELSE CleanIngredients(IF PassesNameCheck(Head(items))
                          THEN AppendIfNamed(validated_ingredients, CleanIngredient(Head(items)))
                          ELSE validated_ingredients,
                          Tail(items))

CountRawIngredients(validated_ingredients, ingredients) == Len(ingredients)

\* "total_ingredients": len(validated_ingredients)
CountIngredients(validated_ingredients, ingredients) == Len(validated_ingredients)

\* the validated dict, once the entries have been cleaned
validated_ingredient_dict(result, ingredients, validated_ingredients, confidence) ==
    IF ~confidence.ok THEN confidence
    ELSE Ok([ingredients       |-> validated_ingredients,
             serving_size      |-> Strip(PyStr(Get(result, "serving_size", Str(<<>>)))),
             confidence        |-> confidence.val.n,
             language          |-> Get(result, "language", Str(<<"en">>)),
             total_ingredients |-> CountIngredients(validated_ingredients, ingredients)])

\* iterating a str yields its characters, none of which is a dict; iterating
\* None or a number raises TypeError
validate_ingredient_result(result) ==
    IF result.ingredients.t \in {"null", "num"} THEN Raise("TypeError")
    ELSE IF result.ingredients.t = "list"
    THEN validated_ingredient_dict(result, result.ingredients.items,
                                   CleanIngredients(<<>>, result.ingredients.items),
                                   clamp01(Get(result, "confidence", Num(0))))
    ELSE validated_ingredient_dict(result, <<>>, <<>>,
                                   clamp01(Get(result, "confidence", Num(0))))

(***************************************************************************)
(* Text helpers of the pipeline                                            *)
(***************************************************************************)
\* s[:k]
Prefix(s, k) == SubSeq(s, 1, IF Len(s) < k THEN Len(s) ELSE k)

\* content.split('\n'), cutting at the newline nearest the middle first
RECURSIVE SplitLines(_)
SplitLines(s) ==
    LET newlines == {i \in 1..Len(s) : s[i] = "\n"}
        dist(i)  == IF 2 * i < Len(s) THEN Len(s) - 2 * i ELSE 2 * i - Len(s)
    IN IF newlines = {} THEN <<s>>
       ELSE LET k == CHOOSE i \in newlines : \A j \in newlines : dist(i) <= dist(j)
            IN SplitLines(SubSeq(s, 1, k - 1)) \o SplitLines(SubSeq(s, k + 1, Len(s)))

\* sep.join(parts), joining the two halves of the list
RECURSIVE Join(_, _)
Join(sep, parts) ==
    IF parts = <<>> THEN <<>>
    ELSE IF Len(parts) = 1 THEN parts[1]
    ELSE LET half == Len(parts) \div 2
         IN Join(sep, SubSeq(parts, 1, half)) \o sep
            \o Join(sep, SubSeq(parts, half + 1, Len(parts)))

\* section-header keywords: ingredients, ingredient list, instructions,
\* directions and the Japanese words for material(s list), how-to-make, steps
ingredient_indicators == {"ingredients", "zairyou", "ingredient list", "zairyou risuto",
                          "instructions", "tsukurikata", "directions", "tejun"}

SectionLineCap == 100

IsHeaderLine(line) == \E i \in 1..Len(line) : Lower(line[i]) \in ingredient_indicators

\* one pass of the for-loop of _extract_ingredient_sections on a line:
\* st = [sec, rel, stop], stop set by the break
ScanStep(st, line) ==
    IF st.stop THEN st
    ELSE IF IsHeaderLine(line)
    THEN [sec |-> TRUE, rel |-> Append(st.rel, line), stop |-> FALSE]
    ELSE IF st.sec
    THEN [sec |-> TRUE, rel |-> Append(st.rel, line),
          stop |-> Len(st.rel) + 1 > SectionLineCap]
    ELSE st

\* the for-loop over lines[lo..hi], first half then second half unless
\* the break was taken
RECURSIVE ScanRange(_, _, _, _)
ScanRange(lines, lo, hi, st) ==
    IF lo > hi THEN st
    ELSE IF lo = hi THEN ScanStep(st, lines[lo])
    ELSE LET mid  == (lo + hi) \div 2
             left == ScanRange(lines, lo, mid, st)
         IN IF left.stop THEN left ELSE ScanRange(lines, mid + 1, hi, left)

ScanLines(lines, st) == ScanRange(lines, 1, Len(lines), st).rel

extract_ingredient_sections(content) ==
    LET relevant_lines == ScanLines(SplitLines(content), [sec |-> FALSE, rel |-> <<>>, stop |-> FALSE])
    IN IF relevant_lines = <<>> THEN Prefix(content, 2000)
       ELSE Join(<<"\n">>, relevant_lines)

\* template chosen by _create_recipe_detection_prompt / _create_ingredient_extraction_prompt
PromptTemplateAutoOnly(content, language) ==
    IF detect_japanese(content) THEN "ja" ELSE "en"

PromptTemplate(content, language) ==
    IF language = "ja" \/ (language = "auto" /\ detect_japanese(content)) THEN "ja" ELSE "en"


(***************************************************************************)
(* Cache                                                                   *)
(***************************************************************************)
cache_ttl == 3600

\* hashlib.md5(...).hexdigest(): a digest of the text (collision-free here)
md5_hexdigest(content) == "md5:" \o content

get_cache_key_url_only(url, operation) == md5_hexdigest(url)

get_cache_key(url, operation) == md5_hexdigest(url \o "_" \o operation)

NoData == [kind |-> "none"]

CacheFreshInclusive(t, timestamp) == t - timestamp <= cache_ttl

\* time.time() - cached_data['timestamp'] < self._cache_ttl
CacheFresh(t, timestamp) == t - timestamp < cache_ttl

\* a read that also drops every other expired entry
get_from_cache_sweeping(c, cache_key, t) ==
    LET kept == {k \in DOMAIN c : CacheFresh(t, c[k].timestamp)}
    IN IF cache_key \in kept
       THEN [found |-> TRUE, data |-> c[cache_key].data, cache |-> [k \in kept |-> c[k]]]
       ELSE [found |-> FALSE, data |-> NoData, cache |-> [k \in kept |-> c[k]]]

\* returns the payload (or None) and the cache it leaves behind
get_from_cache(c, cache_key, t) ==
    IF cache_key \in DOMAIN c
    THEN IF CacheFresh(t, c[cache_key].timestamp)
         THEN [found |-> TRUE, data |-> c[cache_key].data, cache |-> c]
         ELSE [found |-> FALSE, data |-> NoData,
               cache |-> [k \in DOMAIN c \ {cache_key} |-> c[k]]]
    ELSE [found |-> FALSE, data |-> NoData, cache |-> c]

set_cache(c, cache_key, data, t) ==
    [k \in DOMAIN c \cup {cache_key} |->
        IF k = cache_key THEN [data |-> data, timestamp |-> t] ELSE c[k]]

\* `if cached_result:` - None and the empty dict are falsy; every payload
\* the pipeline stores has keys
CachedTruthy(g) == g.found /\ g.data # NoData

(***************************************************************************)
(* Collaborators' answers                                                  *)
(*   page : [ok, title, meta, content]  result of fetch_page_content       *)
(*   reply: [ok, text, members]         result of invoke_model             *)
(* ok = FALSE is a raised exception.                                       *)
(***************************************************************************)
Page(title, meta, content) == [ok |-> TRUE, title |-> title, meta |-> meta, content |-> content]
FetchFailed == [ok |-> FALSE, title |-> <<>>, meta |-> Null, content |-> <<>>]

Reply(text, members) == [ok |-> TRUE, text |-> text, members |-> members]
InvokeFailed == [ok |-> FALSE, text |-> <<>>, members |-> EmptyDict]

\* events of a call, in order.  fetch / invoke_detect / invoke_extract: a
\* remote call, flag = it succeeded, note = "blank" for a page without
\* analyzable text, or the prompt template.  detect_returned: the verdict
\* the caller read from detect_recipe's result, flag = is_recipe.  data is
\* the collaborator's answer (the page, the reply).
Ev(ev, url, language, flag, note, data) ==
    [ev |-> ev, url |-> url, language |-> language, flag |-> flag, note |-> note,
     data |-> data]

\* a _set_cache call made during a call: operation, arguments, payload, clock
Stored(op, url, language, data, t) ==
    [op |-> op, url |-> url, language |-> language, data |-> data, at |-> t]

Out(c, r, tr, st) == [cache |-> c, ret |-> r, trace |-> tr, stores |-> st]

\* combined_content of detect_recipe
DetectionContent(page) ==
    Join(<<"\n", "\n">>,
         (IF page.title # <<>> THEN <<(<<"Title:", " ">> \o page.title)>> ELSE <<>>)
      \o (IF Truthy(page.meta) /\ page.meta.t = "str"
          THEN <<(<<"Description:", " ">> \o page.meta.s)>> ELSE <<>>)
      \o (IF page.content # <<>> THEN <<(<<"Content:", " ">> \o page.content)>> ELSE <<>>))

\* combined_content of extract_ingredients
ExtractionContent(page) ==
    Join(<<"\n", "\n">>,
         (IF page.title # <<>> THEN <<(<<"Recipe:", " ">> \o page.title)>> ELSE <<>>)
      \o (IF page.content # <<>> THEN <<extract_ingredient_sections(page.content)>> ELSE <<>>))

NeverBlank(combined_content) == FALSE

\* not combined_content.strip()
NoAnalyzableContent(combined_content) == Strip(combined_content) = <<>>

\* result.get(key, default) on a result dict
DictGet(d, key, default) == IF key \in DOMAIN d THEN d[key] ELSE default

AlwaysRecipe(detection_result) == TRUE

\* detection_result.get("is_recipe", False), read as a condition
IsRecipe(detection_result) == Truthy(DictGet(detection_result, "is_recipe", Bool(FALSE)))

NotRecipeNoContent(url) ==
    [kind |-> "detection", is_recipe |-> Bool(FALSE), confidence |-> 0,
     reason |-> Str(<<"No analyzable content found on the webpage">>),
     detected_elements |-> List(0), language |-> Str(<<"en">>), url |-> url]

\* detect_recipe from the validation of the parsed reply (v) on
detect_store(c, cache_key, t, url, language, invoked, v) ==
    LET result == [kind |-> "detection", is_recipe |-> v.val.is_recipe,
                   confidence |-> v.val.confidence, reason |-> v.val.reason,
                   detected_elements |-> v.val.detected_elements,
                   language |-> v.val.language, url |-> url]
    IN IF ~v.ok THEN Out(c, Raise("RuntimeError"), invoked, <<>>)
       ELSE Out(set_cache(c, cache_key, result, t), Ok(result), invoked,
                <<Stored("detect", url, language, result, t)>>)

detect_recipe(c, t, url, language, page, reply) ==
    LET cache_key == get_cache_key(url, "detect_" \o language)
        g         == get_from_cache(c, cache_key, t)
        combined  == DetectionContent(page)
        fetched   == <<Ev("fetch", url, language, page.ok,
                          IF page.ok /\ NoAnalyzableContent(combined) THEN "blank" ELSE "",
                          page)>>
        invoked   == Append(fetched, Ev("invoke_detect", url, language, reply.ok,
                                        PromptTemplate(combined, language), reply))
    IN IF CachedTruthy(g) THEN Out(g.cache, Ok(g.data), <<>>, <<>>)
       ELSE IF ~page.ok THEN Out(g.cache, Raise("RuntimeError"), fetched, <<>>)
       ELSE IF NoAnalyzableContent(combined)
       THEN Out(g.cache, Ok(NotRecipeNoContent(url)), fetched, <<>>)
       ELSE IF ~reply.ok THEN Out(g.cache, Raise("RuntimeError"), invoked, <<>>)
       ELSE detect_store(g.cache, cache_key, t, url, language, invoked,
                validate_detection_result(parse_ai_response(reply.text, reply.members)))

EmptyExtraction(url, lang, err) ==
    [kind |-> "extraction", ingredients |-> <<>>, serving_size |-> <<>>, confidence |-> 0,
     language |-> lang, total_ingredients |-> 0, url |-> url, error |-> err]

\* extract_ingredients from the validation of the parsed reply (v) on
extract_store(d, cache_key, t, url, language, invoked, v) ==
    LET result == [kind |-> "extraction", ingredients |-> v.val.ingredients,
                   serving_size |-> v.val.serving_size, confidence |-> v.val.confidence,
                   language |-> v.val.language,
                   total_ingredients |-> v.val.total_ingredients,
                   url |-> url, error |-> ""]
    IN IF ~v.ok THEN Out(d.cache, Raise("RuntimeError"), invoked, d.stores)
       ELSE Out(set_cache(d.cache, cache_key, result, t), Ok(result), invoked,
                Append(d.stores, Stored("extract", url, language, result, t)))

\* extract_ingredients once detect_recipe has answered (d is its outcome)
extract_after_detection(d, t, url, language, page2, reply2) ==
    LET verdict   == Append(d.trace, Ev("detect_returned", url, language,
                                 Truthy(DictGet(d.ret.val, "is_recipe", Bool(FALSE))), "", NoData))
        combined  == ExtractionContent(page2)
        fetched   == Append(verdict, Ev("fetch", url, language, page2.ok,
                            IF page2.ok /\ NoAnalyzableContent(combined) THEN "blank" ELSE "",
                            page2))
        invoked   == Append(fetched, Ev("invoke_extract", url, language, reply2.ok,
                                        PromptTemplate(combined, language), reply2))
    IN IF ~d.ret.ok THEN Out(d.cache, Raise("RuntimeError"), d.trace, d.stores)
       ELSE IF ~IsRecipe(d.ret.val)
       THEN Out(d.cache, Ok(EmptyExtraction(url, DictGet(d.ret.val, "language", Str(<<"en">>)),
                                            "Not detected as a recipe page")),
                verdict, d.stores)
       ELSE IF ~page2.ok THEN Out(d.cache, Raise("RuntimeError"), fetched, d.stores)
       ELSE IF NoAnalyzableContent(combined)
       THEN Out(d.cache, Ok(EmptyExtraction(url, DictGet(d.ret.val, "language", Str(<<"en">>)),
                    "No analyzable content found for ingredients extraction")),
                fetched, d.stores)
       ELSE IF ~reply2.ok THEN Out(d.cache, Raise("RuntimeError"), invoked, d.stores)
       ELSE extract_store(d, get_cache_key(url, "extract_" \o language), t, url, language,
                invoked,
                validate_ingredient_result(parse_ai_response(reply2.text, reply2.members)))

\* extract_ingredients once the cache has been read (g is the lookup)
extract_after_lookup(g, t, url, language, page1, reply1, page2, reply2) ==
    IF CachedTruthy(g) THEN Out(g.cache, Ok(g.data), <<>>, <<>>)
    ELSE extract_after_detection(detect_recipe(g.cache, t, url, language, page1, reply1),
                                 t, url, language, page2, reply2)

\* extract_ingredients that goes to detect_recipe without reading the cache
extract_ingredients_uncached(c, t, url, language, page1, reply1, page2, reply2) ==
    extract_after_lookup([found |-> FALSE, data |-> NoData, cache |-> c],
                         t, url, language, page1, reply1, page2, reply2)

extract_ingredients(c, t, url, language, page1, reply1, page2, reply2) ==
    extract_after_lookup(get_from_cache(c, get_cache_key(url, "extract_" \o language), t),
                         t, url, language, page1, reply1, page2, reply2)

\* analyze_url on a recipe page, once extract_ingredients has answered
analyze_after_extraction(d, e, url, verdict) ==
    IF ~e.ret.ok
    THEN Out(e.cache, Raise("RuntimeError"), verdict \o e.trace, d.stores \o e.stores)
    ELSE Out(e.cache,
             Ok([kind |-> "analysis", url |-> url,
                 is_recipe |-> DictGet(d.ret.val, "is_recipe", Bool(FALSE)),
                 detection_confidence |-> DictGet(d.ret.val, "confidence", 0),
                 language |-> DictGet(d.ret.val, "language", Str(<<"en">>)),
                 ingredients |-> DictGet(e.ret.val, "ingredients", <<>>),
                 serving_size |-> DictGet(e.ret.val, "serving_size", <<>>),
                 extraction_confidence |-> DictGet(e.ret.val, "confidence", 0),
                 total_ingredients |-> DictGet(e.ret.val, "total_ingredients", 0)]),
             verdict \o e.trace, d.stores \o e.stores)

\* analyze_url once detect_recipe has answered.  The nested detect_recipe of
\* extract_ingredients is answered by the same page and reply should it miss
\* the cache.
analyze_after_detection(d, t, url, language, page1, reply1, page2, reply2) ==
    LET verdict == Append(d.trace, Ev("detect_returned", url, language,
                               Truthy(DictGet(d.ret.val, "is_recipe", Bool(FALSE))), "", NoData))
    IN IF ~d.ret.ok THEN Out(d.cache, Raise("RuntimeError"), d.trace, d.stores)
       ELSE IF IsRecipe(d.ret.val)
       THEN analyze_after_extraction(d,
                extract_ingredients(d.cache, t, url, language, page1, reply1, page2, reply2),
                url, verdict)
       ELSE Out(d.cache,
                Ok([kind |-> "analysis", url |-> url,
                    is_recipe |-> DictGet(d.ret.val, "is_recipe", Bool(FALSE)),
                    detection_confidence |-> DictGet(d.ret.val, "confidence", 0),
                    language |-> DictGet(d.ret.val, "language", Str(<<"en">>)),
                    ingredients |-> <<>>, serving_size |-> <<>>,
                    extraction_confidence |-> 0, total_ingredients |-> 0]),
                verdict, d.stores)

analyze_url(c, t, url, language, page1, reply1, page2, reply2) ==
    analyze_after_detection(detect_recipe(c, t, url, language, page1, reply1),
                            t, url, language, page1, reply1, page2, reply2)


(***************************************************************************)
(* Confidence of a search result (rag_service.py)                          *)
(***************************************************************************)
\* _extract_recipe_info: 0.0 without documents, else min(len(documents) * 0.2, 1.0)
confidence_score(ndocs) ==
    IF ndocs = 0 THEN Num(0) ELSE PyMin(Num(20 * ndocs), Num(100))

\* _validate_retrieval_result: max(0.0, min(1.0, result.get("confidence", 0.0)))
validate_retrieval_confidence(confidence) ==
    clamp01(IF confidence = Missing THEN Num(0) ELSE confidence)

(***************************************************************************)
(* The service as a state machine                                          *)
(***************************************************************************)
VARIABLES
    now,      \* time.time()
    cache,    \* self._cache: cache key -> [data, timestamp]
    stored,   \* history: <<op, url, language>> -> last _set_cache since the last clear_cache
    call,     \* the last call made: [op, url, language]
    ret,      \* what it returned or raised
    trace,    \* its events, in order
    stores,   \* the _set_cache calls it made
    arg,      \* argument of the function under study (function-level specification)
    res,      \* its result
    rag,      \* RAGService: LANGCHAIN_AVAILABLE, the required settings, _is_initialized
    bedrock,  \* BedrockService: client, last_request_time
    scraper,  \* WebScraperService: last_request_time, current_user_agent_index
    clock,    \* time.time() in milliseconds, as the two rate limiters read it
    callers   \* concurrent callers of BedrockService.invoke_model: their positions

vars == <<now, cache, stored, call, ret, trace, stores, arg, res, rag, bedrock, scraper, clock,
          callers>>

\* the instances the recipe detector does not own, and their other callers
services == <<rag, bedrock, scraper, clock, callers>>

MaxTime   == 3600
TickSteps == {cache_ttl - 1, cache_ttl}

Urls         == {"http://a"}
Languages    == {"auto"}
AllLanguages == {"auto", "ja"}

SaltEntry  == Entry(Str(<<"Salt">>), Num(1), Str(<<" ", "tsp">>), Missing)
BlankEntry == Entry(Str(<<" ">>), Str(<<"1">>), Missing, Missing)

\* a well-formed reply object carrying both the detection and the extraction fields
FullDict(flag, conf) ==
    Dict(flag, conf, Str(<<"r">>), List(1), Str(<<"ja">>), Str(<<"2">>),
         Ingr("list", <<SaltEntry, BlankEntry, SaltEntry>>))

JsonReply(d) == Reply(<<"{", "m", "}">>, d)

ServiceReplies ==
    {JsonReply(FullDict(Bool(TRUE), Num(90))), JsonReply(FullDict(Bool(TRUE), Num(70))),
     JsonReply(FullDict(Bool(TRUE), Num(69))), JsonReply(FullDict(Bool(FALSE), Num(90))),
     JsonReply(FullDict(Bool(TRUE), Null)),
     Reply(<<"Recipe", " ", "x">>, EmptyDict)}

ServicePages ==
    {Page(<<>>, Null, <<>>),
     Page(<<>>, Str(<<"d">>), <<>>),
     Page(<<"t">>, Null, <<"c", "\n", "Ingredients", "\n", "kanji">>)}

PageOutcomes  == ServicePages \cup {FetchFailed}
ReplyOutcomes == ServiceReplies \cup {InvokeFailed}

\* the smaller world of the cache-key specification
KeyPageOutcomes  == {Page(<<"t">>, Null, <<"c">>), FetchFailed}
KeyReplyOutcomes == {JsonReply(FullDict(Bool(TRUE), Num(90))), InvokeFailed}

EmptyCache == [k \in {} |-> NoData]
NoCall     == [op |-> "none", url |-> "", language |-> ""]
NoRet      == [ok |-> TRUE, val |-> NoData, err |-> ""]
NoArg      == [fn |-> "none", text |-> <<>>, members |-> EmptyDict, ndocs |-> 0]

\* minimum spacing of requests, in milliseconds
min_request_interval == 100
WEB_SCRAPER_DELAY    == 1000

\* RAGService whose module could not import its library: nothing is configured
Rag(lib, kb, s3, region, model, initialized) ==
    [LANGCHAIN_AVAILABLE |-> lib, KNOWLEDGE_BASE_ID |-> kb, S3_BUCKET_NAME |-> s3,
     AWS_DEFAULT_REGION |-> region, BEDROCK_MODEL_ID |-> model, is_initialized |-> initialized]
NoRag == Rag(FALSE, FALSE, FALSE, FALSE, FALSE, FALSE)

\* len(USER_AGENTS)
UserAgentCount == 5

\* _update_headers: the next request takes the next user agent
update_headers(s) ==
    [s EXCEPT !.current_user_agent_index = (@ + 1) % UserAgentCount]

\* __init__ of the two gateways: last_request_time = 0; the scraper's
\* _initialize_session has set the headers once
NewBedrock == [client |-> TRUE, last_request_time |-> 0]
NewScraper == update_headers([last_request_time |-> 0, current_user_agent_index |-> 0])

\* no concurrent caller
NoCallers == <<>>

\* the epoch is far behind: the first request of an instance never waits
ClockStart == 2 * WEB_SCRAPER_DELAY

Init ==
    /\ now = 0
    /\ cache = EmptyCache
    /\ stored = EmptyCache
    /\ call = NoCall
    /\ ret = NoRet
    /\ trace = <<>>
    /\ stores = <<>>
    /\ arg = NoArg
    /\ res = NoRet
    /\ rag = NoRag
    /\ bedrock = NewBedrock
    /\ scraper = NewScraper
    /\ clock = ClockStart
    /\ callers = NoCallers

\* history of _set_cache calls, latest per <<op, url, language>>
RECURSIVE ApplyStores(_, _)
ApplyStores(h, sts) ==
    IF sts = <<>> THEN h
    ELSE LET s == Head(sts)
             k == <<s.op, s.url, s.language>>
         IN ApplyStores([x \in DOMAIN h \cup {k} |->
                            IF x = k THEN [data |-> s.data, timestamp |-> s.at] ELSE h[x]],
                        Tail(sts))

LastEv(tr) == IF tr = <<>> THEN "none" ELSE tr[Len(tr)].ev

\* number of events named ev in a trace
Count(tr, ev) == Cardinality({i \in 1..Len(tr) : tr[i].ev = ev})

Finish(op, url, language, o) ==
    /\ cache' = o.cache
    /\ stored' = ApplyStores(stored, o.stores)
    /\ call' = [op |-> op, url |-> url, language |-> language]
    /\ ret' = o.ret
    /\ trace' = o.trace
    /\ stores' = o.stores
    /\ UNCHANGED <<now, arg, res, services>>

\* The collaborators answer only when asked: a page is drawn when the call
\* reaches a fetch, a reply when it reaches the model.
DetectRecipeOn(L, P, R) ==
    \E url \in Urls, language \in L :
      \E page \in IF LastEv(detect_recipe(cache, now, url, language,
                                          FetchFailed, InvokeFailed).trace) = "fetch"
                  THEN P ELSE {FetchFailed} :
        \E reply \in IF LastEv(detect_recipe(cache, now, url, language,
                                             page, InvokeFailed).trace) = "invoke_detect"
                     THEN R ELSE {InvokeFailed} :
          Finish("detect_recipe", url, language,
                 detect_recipe(cache, now, url, language, page, reply))

ExtractIngredientsOn(L, P, R) ==
    \E url \in Urls, language \in L :
      \E page1 \in IF Count(extract_ingredients(cache, now, url, language, FetchFailed,
                              InvokeFailed, FetchFailed, InvokeFailed).trace, "fetch") = 1
                   THEN P ELSE {FetchFailed} :
        \E reply1 \in IF LastEv(extract_ingredients(cache, now, url, language, page1,
                                InvokeFailed, FetchFailed, InvokeFailed).trace) = "invoke_detect"
                      THEN R ELSE {InvokeFailed} :
          \E page2 \in IF LET tr == extract_ingredients(cache, now, url, language, page1,
                                        reply1, FetchFailed, InvokeFailed).trace
                          IN LastEv(tr) = "fetch" /\ Count(tr, "detect_returned") >= 1
                       THEN P ELSE {FetchFailed} :
            \E reply2 \in IF LastEv(extract_ingredients(cache, now, url, language, page1,
                                    reply1, page2, InvokeFailed).trace) = "invoke_extract"
                          THEN R ELSE {InvokeFailed} :
              Finish("extract_ingredients", url, language,
                     extract_ingredients(cache, now, url, language,
                                         page1, reply1, page2, reply2))

AnalyzeUrlOn(L, P, R) ==
    \E url \in Urls, language \in L :
      \E page1 \in IF Count(analyze_url(cache, now, url, language, FetchFailed,
                              InvokeFailed, FetchFailed, InvokeFailed).trace, "fetch") = 1
                      /\ Count(analyze_url(cache, now, url, language, FetchFailed,
                              InvokeFailed, FetchFailed, InvokeFailed).trace, "detect_returned") = 0
                   THEN P ELSE {FetchFailed} :
        \E reply1 \in IF LastEv(analyze_url(cache, now, url, language, page1,
                                InvokeFailed, FetchFailed, InvokeFailed).trace) = "invoke_detect"
                      THEN R ELSE {InvokeFailed} :
          \E page2 \in IF LET tr == analyze_url(cache, now, url, language, page1,
                                        reply1, FetchFailed, InvokeFailed).trace
                          IN LastEv(tr) = "fetch" /\ Count(tr, "detect_returned") >= 1
                       THEN P ELSE {FetchFailed} :
            \E reply2 \in IF LastEv(analyze_url(cache, now, url, language, page1,
                                    reply1, page2, InvokeFailed).trace) = "invoke_extract"
                          THEN R ELSE {InvokeFailed} :
              Finish("analyze_url", url, language,
                     analyze_url(cache, now, url, language, page1, reply1, page2, reply2))

DetectRecipe       == DetectRecipeOn(Languages, PageOutcomes, ReplyOutcomes)
ExtractIngredients == ExtractIngredientsOn(Languages, PageOutcomes, ReplyOutcomes)
AnalyzeUrl         == AnalyzeUrlOn(Languages, PageOutcomes, ReplyOutcomes)

\* clear_cache
ClearCache ==
    /\ cache' = EmptyCache
    /\ stored' = EmptyCache
    /\ call' = [op |-> "clear_cache", url |-> "", language |-> ""]
    /\ ret' = NoRet
    /\ trace' = <<>>
    /\ stores' = <<>>
    /\ UNCHANGED <<now, arg, res, services>>

\* the clock advances between calls
Tick ==
    \E d \in TickSteps :
      /\ now + d <= MaxTime
      /\ now' = now + d
      /\ UNCHANGED <<cache, stored, call, ret, trace, stores, arg, res, services>>

Next == DetectRecipe \/ ExtractIngredients \/ AnalyzeUrl \/ ClearCache \/ Tick

Spec == Init /\ [][Next]_vars

(***************************************************************************)
(* The same service called with both language preferences                  *)
(***************************************************************************)
KeyDetectRecipe       == DetectRecipeOn(AllLanguages, KeyPageOutcomes, KeyReplyOutcomes)
KeyExtractIngredients == ExtractIngredientsOn(AllLanguages, KeyPageOutcomes, KeyReplyOutcomes)
KeyAnalyzeUrl         == AnalyzeUrlOn(AllLanguages, KeyPageOutcomes, KeyReplyOutcomes)

NextKeys == KeyDetectRecipe \/ KeyExtractIngredients \/ KeyAnalyzeUrl \/ ClearCache \/ Tick

SpecKeys == Init /\ [][NextKeys]_vars


(***************************************************************************)
(* The cache around the expiry of its entries: calls at 0 s, 1 s and at    *)
(* one second before, at and after cache_ttl.                              *)
(***************************************************************************)
TtlTimes == {0, 1, cache_ttl - 1, cache_ttl, cache_ttl + 1}

TtlDetectRecipe       == DetectRecipeOn(Languages, KeyPageOutcomes, KeyReplyOutcomes)
TtlExtractIngredients == ExtractIngredientsOn(Languages, KeyPageOutcomes, KeyReplyOutcomes)
TtlAnalyzeUrl         == AnalyzeUrlOn(Languages, KeyPageOutcomes, KeyReplyOutcomes)

TtlTick ==
    \E t \in TtlTimes :
      /\ t > now
      /\ now' = t
      /\ UNCHANGED <<cache, stored, call, ret, trace, stores, arg, res, services>>

TtlNext == TtlDetectRecipe \/ TtlExtractIngredients \/ TtlAnalyzeUrl \/ ClearCache \/ TtlTick

SpecTtl == Init /\ [][TtlNext]_vars


(***************************************************************************)
(* The parsing and validation functions taken one at a time: the initial   *)
(* state draws the argument, one step applies the function to it.          *)
(***************************************************************************)
MaxReplyLen    == 3
MaxIngredients == 2
MaxDocs        == 6

ReplyTokens == {"{", "}", "m", "Recipe", "zairyou", "hiragana"}

\* all sequences over S of length at most n
SeqsUpTo(S, n) == UNION {[1..k -> S] : k \in 0..n}

RawConfidences == {Missing, Null, NaN, Str(<<"0.9">>), Bool(TRUE),
                   Num(-30), Num(0), Num(69), Num(70), Num(100), Num(150)}

DetectionDicts ==
    {Dict(ir, cf, rs, Missing, Missing, Missing, NoIngr) :
        ir \in {Missing, Bool(TRUE), Bool(FALSE)},
        cf \in RawConfidences,
        rs \in {Missing, Str(<<"r">>), Null}}

EntryPool ==
    {Entry(name, quantity, Missing, Str(<<"x", " ">>)) :
        name \in {Missing, Null, Num(0), Num(5), Str(<<>>), Str(<<" ">>),
                  Str(<<" ", "Salt", " ">>)},
        quantity \in {Missing, Num(2)}}
    \cup {NonDictEntry}

IngredientDicts ==
    {Dict(Missing, cf, Missing, Missing, Missing, sv, ing) :
        cf \in {Missing, Num(150)},
        sv \in {Missing, Num(4)},
        ing \in {NoIngr, Ingr("null", <<>>), Ingr("str", <<>>)}
                \cup {Ingr("list", items) : items \in SeqsUpTo(EntryPool, MaxIngredients)}}

\* page text for the prompt: ASCII words and one character of each Japanese range
PromptTokens    == {"flour", "kanji", "katakana", "hiragana"}
PromptLanguages == {"auto", "ja", "en"}

\* page content for _extract_ingredient_sections: lines before a header line,
\* the header line, plain lines after it; or one long line without a header
LinesOf(n, line) == [i \in 1..(2 * n) |-> IF i % 2 = 1 THEN line ELSE "\n"]

SectionContents ==
    {LinesOf(before, "intro") \o <<"Ingredients">> \o after :
        before \in {0, 1},
        after \in {<<>>, <<"\n">>}
                  \cup {<<"\n">> \o LinesOf(n, "salt") \o tail :
                           n \in {1, SectionLineCap - 2, SectionLineCap - 1, SectionLineCap},
                           tail \in {<<"last">>, <<"Directions">>}}}
    \cup {<<>>, <<"intro", "\n", "salt">>, [i \in 1..2001 |-> "a"]}

\* settings.BEDROCK_MAX_TOKENS, and settings.BEDROCK_TEMPERATURE in hundredths
BEDROCK_MAX_TOKENS == 4096
BEDROCK_TEMPERATURE == 10

\* an optional argument: <<>> is None, <<v>> is the value v
Supplied(x) == x # <<>>

\* Python's `x or default` on an optional number: None and 0 are both falsy
or_default(x, default) == IF x = <<>> THEN default ELSE IF x[1] = 0 THEN default ELSE x[1]

\* lines 156-186 of invoke_model: the parameters put in the request body,
\* the same in the Claude branch and in the branch for other models
request_body(max_tokens, temperature) ==
    [max_tokens  |-> or_default(max_tokens, BEDROCK_MAX_TOKENS),
     temperature |-> or_default(temperature, BEDROCK_TEMPERATURE)]

\* arguments of invoke_model: max_tokens and temperature (hundredths), each
\* supplied or not; test_connection supplies 10 and 0.0
RequestParams ==
    [max_tokens : {<<>>, <<10>>, <<BEDROCK_MAX_TOKENS>>},
     temperature : {<<>>, <<0>>, <<BEDROCK_TEMPERATURE>>, <<50>>, <<100>>}]

FnArg(fn, text, members, ndocs) ==
    [fn |-> fn, text |-> text, members |-> members, ndocs |-> ndocs]

FnArgs ==
    {FnArg("parse", text, FullDict(Bool(TRUE), Num(90)), 0) :
        text \in SeqsUpTo(ReplyTokens, MaxReplyLen)}
    \cup {FnArg("detection", <<>>, d, 0) : d \in DetectionDicts}
    \cup {FnArg("ingredient", <<>>, d, 0) : d \in IngredientDicts}
    \cup {FnArg("retrieval", <<>>, d, 0) : d \in DetectionDicts}
    \cup {FnArg("search", <<>>, EmptyDict, n) : n \in 0..MaxDocs}
    \cup {FnArg("sections", text, EmptyDict, 0) : text \in SectionContents}
    \cup {FnArg("request", <<>>, params, 0) : params \in RequestParams}
    \cup {FnArg("prompt_" \o language, text, EmptyDict, 0) :
             language \in PromptLanguages, text \in SeqsUpTo(PromptTokens, MaxReplyLen)}

FnInit ==
    /\ now = 0
    /\ cache = EmptyCache
    /\ stored = EmptyCache
    /\ call = NoCall
    /\ ret = NoRet
    /\ trace = <<>>
    /\ stores = <<>>
    /\ arg \in FnArgs
    /\ res = NoRet
    /\ rag = NoRag
    /\ bedrock = NewBedrock
    /\ scraper = NewScraper
    /\ clock = ClockStart
    /\ callers = NoCallers

FnApply(fn, r) ==
    /\ arg.fn = fn
    /\ res = NoRet
    /\ res' = r
    /\ UNCHANGED <<now, cache, stored, call, ret, trace, stores, arg, services>>

FnParse              == FnApply("parse", Ok(parse_ai_response(arg.text, arg.members)))
FnValidateDetection  == FnApply("detection", validate_detection_result(arg.members))
FnValidateIngredient == FnApply("ingredient", validate_ingredient_result(arg.members))
FnValidateRetrieval  == FnApply("retrieval", validate_retrieval_confidence(arg.members.confidence))
FnSearchRecipe       == FnApply("search", validate_retrieval_confidence(confidence_score(arg.ndocs)))

\* _create_recipe_detection_prompt / _create_ingredient_extraction_prompt: the template chosen
FnCreatePrompt ==
    \E language \in PromptLanguages :
       FnApply("prompt_" \o language, Ok(Str(<<PromptTemplate(arg.text, language)>>)))

FnExtractSections ==
    FnApply("sections", Ok(Str(extract_ingredient_sections(arg.text))))

\* invoke_model up to the request body
FnRequestBody ==
    FnApply("request", Ok(request_body(arg.members.max_tokens, arg.members.temperature)))

FnNext == FnParse \/ FnValidateDetection \/ FnValidateIngredient
          \/ FnValidateRetrieval \/ FnSearchRecipe \/ FnCreatePrompt
          \/ FnExtractSections \/ FnRequestBody

SpecFn == FnInit /\ [][FnNext]_vars


(***************************************************************************)
(* Recipe search (rag_service.py). Text is a sequence of characters here,  *)
(* exception messages are opaque strings.                                  *)
(***************************************************************************)
MinAnswerLength == 50
ContentCap      == 200
SourceCap       == 3
IngredientCap   == 10
NameLineCap     == 5

is_available_uninitialized(r) ==
    /\ r.LANGCHAIN_AVAILABLE
    /\ r.KNOWLEDGE_BASE_ID /\ r.S3_BUCKET_NAME /\ r.AWS_DEFAULT_REGION /\ r.BEDROCK_MODEL_ID

\* is_available: the library, the four required settings, _is_initialized
is_available(r) ==
    /\ r.LANGCHAIN_AVAILABLE
    /\ r.KNOWLEDGE_BASE_ID /\ r.S3_BUCKET_NAME /\ r.AWS_DEFAULT_REGION /\ r.BEDROCK_MODEL_ID
    /\ r.is_initialized

\* the four characters appended to the dish name: "no", "re", "shi", "pi"
RecipeSuffix == <<"no", "re", "shi", "pi">>

\* _format_dish_query: queries[0], the stripped dish name followed by the suffix
format_dish_query(dish_name) == Strip(dish_name) \o RecipeSuffix

\* sub in line.lower()
InLower(sub, line) ==
    \E i \in 0..(Len(line) - Len(sub)) :
        \A k \in 1..Len(sub) : Lower(line[i + k]) = sub[k]

\* any(char.isdigit() for char in line)
DigitChars == {Digit(k) : k \in 0..9}
AnyDigit(line) == \E i \in 1..Len(line) : line[i] \in DigitChars

\* 'recipe' and the two Japanese words for recipe and dish
name_keywords == {<<"r", "e", "c", "i", "p", "e">>, <<"re", "shi", "pi">>, <<"ryou", "ri">>}

\* the word for material, 'ingredients', the middle dot, '-', '*'
ingredient_patterns == {<<"zai", "ryou">>,
                        <<"i", "n", "g", "r", "e", "d", "i", "e", "n", "t", "s">>,
                        <<"nakaguro">>, <<"-">>, <<"*">>}

\* the first of the given lines that holds a keyword, stripped; "" without one
RECURSIVE first_recipe_line(_)
first_recipe_line(lines) ==
    IF lines = <<>> THEN <<>>
    ELSE IF \E keyword \in name_keywords : InLower(keyword, Head(lines))
         THEN Strip(Head(lines))
         ELSE first_recipe_line(Tail(lines))

\* a line is appended once per pattern it holds, when it holds a digit
RECURSIVE ingredient_lines(_)
ingredient_lines(lines) ==
    IF lines = <<>> THEN <<>>
    ELSE LET line == Head(lines)
             hits == IF AnyDigit(line)
                     THEN Cardinality({p \in ingredient_patterns : InLower(p, line)})
                     ELSE 0
         IN [i \in 1..hits |-> Strip(line)] \o ingredient_lines(Tail(lines))

RecipeInfo(recipe_name, ingredients, score) ==
    [recipe_name |-> recipe_name, ingredients |-> ingredients, confidence_score |-> score]

info_from_lines(lines, ndocs) ==
    RecipeInfo(first_recipe_line(Prefix(lines, NameLineCap)),
               Prefix(ingredient_lines(lines), IngredientCap),
               confidence_score(ndocs))

\* _extract_recipe_info: "\n\n".join raises TypeError on a page_content that is no string
extract_recipe_info(documents) ==
    IF documents = <<>> THEN Ok(RecipeInfo(<<>>, <<>>, Num(0)))
    ELSE IF \E i \in 1..Len(documents) : documents[i].page_content.t # "str"
         THEN Raise("TypeError")
         ELSE Ok(info_from_lines(
                    SplitLines(Join(<<"\n", "\n">>,
                                    [i \in 1..Len(documents) |-> documents[i].page_content.s])),
                    Len(documents)))

recipe_found_at_least(answer) == Len(Strip(answer.s)) >= MinAnswerLength

\* len(answer.strip()) > 50, for an answer that is a non-empty string
recipe_found(answer) == Len(Strip(answer.s)) > MinAnswerLength

source_content_cut(page_content) == Prefix(page_content, ContentCap)

\* page_content[:200] + "..." if len(page_content) > 200 else page_content
source_content(page_content) ==
    IF Len(page_content) > ContentCap
    THEN Prefix(page_content, ContentCap) \o <<".", ".", ".">>
    ELSE page_content

\* the sources of the response: the first three documents
response_sources(documents) ==
    [i \in 1..Len(Prefix(documents, SourceCap)) |->
        [content |-> source_content(documents[i].page_content.s),
         metadata |-> documents[i].metadata]]

\* _validate_retrieval_result: a new dict of ten keys (the timestamp is left out here)
validate_retrieval_result(result, c) ==
    IF ~c.ok THEN Raise(c.err)
    ELSE Ok([recipe_found    |-> DictGet(result, "recipe_found", FALSE),
             recipe_name     |-> DictGet(result, "recipe_name", <<>>),
             answer          |-> DictGet(result, "answer", Str(<<>>)),
             ingredients     |-> DictGet(result, "ingredients", <<>>),
             instructions    |-> DictGet(result, "instructions", <<>>),
             confidence      |-> c.val,
             sources         |-> DictGet(result, "sources", <<>>),
             processing_time |-> DictGet(result, "processing_time", 0),
             language        |-> DictGet(result, "language", "auto")])

\* the dict search_recipe returns without trying, lines 264-277
service_not_available(language) ==
    [recipe_found |-> FALSE, recipe_name |-> <<>>, answer |-> Str(<<"unavailable">>),
     ingredients |-> <<>>, instructions |-> <<>>, confidence |-> Num(0), sources |-> <<>>,
     processing_time |-> 0, error |-> "Service not available", language |-> language]

search_failed_without_error(dish_name, language, msg, elapsed) ==
    [recipe_found |-> FALSE, recipe_name |-> dish_name, answer |-> Str(<<"apology">>),
     ingredients |-> <<>>, instructions |-> <<>>, confidence |-> Num(0), sources |-> <<>>,
     processing_time |-> elapsed, error |-> "", language |-> language]

\* the dict of the except branch, lines 355-378
search_failed(dish_name, language, msg, elapsed) ==
    [recipe_found |-> FALSE, recipe_name |-> dish_name, answer |-> Str(<<"apology">>),
     ingredients |-> <<>>, instructions |-> <<>>, confidence |-> Num(0), sources |-> <<>>,
     processing_time |-> elapsed, error |-> msg, language |-> language]

\* the response dict of lines 310-331
search_response(dish_name, language, query, answer, documents, info, found, elapsed) ==
    [recipe_found    |-> found,
     recipe_name     |-> IF info.recipe_name # <<>> THEN info.recipe_name ELSE dish_name,
     answer          |-> answer,
     ingredients     |-> info.ingredients,
     instructions    |-> <<>>,
     confidence      |-> info.confidence_score,
     sources         |-> response_sources(documents),
     processing_time |-> elapsed,
     language        |-> language,
     query_used      |-> query]

GatewayEv(query, gateway) == [ev |-> "qa_chain.invoke", query |-> query, reply |-> gateway]
ExceptionEv(msg)          == [ev |-> "exception", msg |-> msg]

SearchOut(r, tr) == [ret |-> r, trace |-> tr]

\* the except branch: the failure is returned, never raised
search_caught(dish_name, language, tr, msg, elapsed) ==
    SearchOut(Ok(search_failed(dish_name, language, msg, elapsed)),
              Append(tr, ExceptionEv(msg)))

\* lines 333-353: validation of the response
search_validated(dish_name, language, tr, v, elapsed) ==
    IF v.ok THEN SearchOut(Ok(v.val), tr)
    ELSE search_caught(dish_name, language, tr, v.err, elapsed)

\* lines 298-331, once the answer is known to be usable
search_respond(dish_name, language, query, tr, answer, documents, info, elapsed) ==
    IF ~info.ok THEN search_caught(dish_name, language, tr, info.err, elapsed)
    ELSE IF Truthy(answer) /\ answer.t # "str"
         THEN search_caught(dish_name, language, tr, "AttributeError", elapsed)
         ELSE search_validated(dish_name, language, tr,
                 validate_retrieval_result(
                     search_response(dish_name, language, query, answer, documents, info.val,
                                     Truthy(answer) /\ recipe_found(answer), elapsed),
                     validate_retrieval_confidence(info.val.confidence_score)),
                 elapsed)

\* lines 279-378: the try block around the gateway call
search_try(dish_name, language, query, gateway, elapsed) ==
    IF gateway.kind = "raise"
    THEN search_caught(dish_name, language, <<GatewayEv(query, gateway)>>, gateway.msg, elapsed)
    ELSE search_respond(dish_name, language, query, <<GatewayEv(query, gateway)>>,
                        Get(gateway, "result", Str(<<>>)), gateway.source_documents,
                        extract_recipe_info(gateway.source_documents), elapsed)

\* search_recipe
search_recipe(r, dish_name, language, gateway, elapsed) ==
    IF ~is_available(r) THEN SearchOut(Ok(service_not_available(language)), <<>>)
    ELSE search_try(dish_name, language, format_dish_query(dish_name), gateway, elapsed)

(***************************************************************************)
(* Specification of the search service                                     *)
(***************************************************************************)
MaxPassages == 4

Chars(n, c) == [i \in 1..n |-> c]

Doc(page_content) == [page_content |-> page_content, metadata |-> "m"]

Passages == {Str(Chars(ContentCap, "a")), Str(Chars(ContentCap + 1, "a"))}

Retrievals ==
    {[i \in DOMAIN ps |-> Doc(ps[i])] : ps \in SeqsUpTo(Passages, MaxPassages)}
    \cup {<<Doc(Str(<<"R", "e", "c", "i", "p", "e", "\n", "*", " ", "3", " ">>))>>,
          <<Doc(Str(<<"-", "2">>)), Doc(Str(<<"a">>))>>,
          <<Doc(Null)>>}

AnswerLengths == {0, MinAnswerLength, MinAnswerLength + 1}

Answers ==
    {Str(Chars(pad, " ") \o Chars(n, "a") \o Chars(pad, " ")) :
        n \in AnswerLengths, pad \in {0, 1}}
    \cup {Missing, Null, Num(5)}

GatewayRaise(msg) ==
    [kind |-> "raise", msg |-> msg, result |-> Missing, source_documents |-> <<>>]
GatewayReply(answer, documents) ==
    [kind |-> "reply", msg |-> "", result |-> answer, source_documents |-> documents]

GatewayOutcomes ==
    {GatewayRaise(msg) : msg \in {"timed out", ""}}
    \cup {GatewayReply(a, ds) : a \in Answers, ds \in Retrievals}

DishNames == {<<" ", "c", " ">>, <<>>}
Elapsed   == {0, 40}

\* __init__ and _initialize_rag_components: _is_initialized needs the library,
\* the knowledge base id and components that could be built
SearchInit ==
    /\ now = 0
    /\ cache = EmptyCache
    /\ stored = EmptyCache
    /\ call = NoCall
    /\ ret = NoRet
    /\ trace = <<>>
    /\ stores = <<>>
    /\ arg = NoArg
    /\ res = NoRet
    /\ \E lib, kb, s3, region, model, built \in BOOLEAN :
          rag = Rag(lib, kb, s3, region, model, lib /\ kb /\ built)
    /\ bedrock = NewBedrock
    /\ scraper = NewScraper
    /\ clock = ClockStart
    /\ callers = NoCallers

\* search_recipe leaves the service as it found it: the first call of an
\* instance shows every call
SearchRecipeOn(dish_name, language, gateway, elapsed) ==
    LET o == search_recipe(rag, dish_name, language, gateway, elapsed)
    IN /\ call = NoCall
       /\ call' = [op |-> "search_recipe", dish_name |-> dish_name, language |-> language]
       /\ ret' = o.ret
       /\ trace' = o.trace
       /\ UNCHANGED <<now, cache, stored, stores, arg, res, services>>

SearchRecipe ==
    \E dish_name \in DishNames, gateway \in GatewayOutcomes, elapsed \in Elapsed :
        SearchRecipeOn(dish_name, "auto", gateway, elapsed)

SearchNext == SearchRecipe

SpecSearch == SearchInit /\ [][SearchNext]_vars


(***************************************************************************)
(* The life of a RAGService instance: construction, then calls of          *)
(* search_recipe, test_connection, list_available_recipes and              *)
(* suggest_similar_recipes.  retriever and qa_chain are TRUE when set,     *)
(* FALSE when None.                                                        *)
(***************************************************************************)
Components(retriever, qa_chain, initialized) ==
    [retriever |-> retriever, qa_chain |-> qa_chain, is_initialized |-> initialized]

\* _is_initialized set as soon as the knowledge base id is seen
initialize_flag_first(kb, failure) ==
    IF ~kb THEN Components(FALSE, FALSE, FALSE)
    ELSE CASE failure = "retriever" -> Components(FALSE, FALSE, TRUE)
           [] failure \in {"llm", "chain"} -> Components(TRUE, FALSE, TRUE)
           [] OTHER -> Components(TRUE, TRUE, TRUE)

\* _initialize_rag_components: failure names the constructor that raises
\* (AmazonKnowledgeBasesRetriever, ChatBedrock, RetrievalQA.from_chain_type)
\* or is "none"; the three classes are there whenever the library is
initialize_rag_components(kb, failure) ==
    IF ~kb THEN Components(FALSE, FALSE, FALSE)
    ELSE CASE failure = "retriever" -> Components(FALSE, FALSE, FALSE)
           [] failure \in {"llm", "chain"} -> Components(TRUE, FALSE, FALSE)
           [] OTHER -> Components(TRUE, TRUE, TRUE)

\* __init__
new_rag_service(lib, kb, s3, region, model, failure) ==
    LET c == IF lib THEN initialize_rag_components(kb, failure)
             ELSE Components(FALSE, FALSE, FALSE)
    IN [LANGCHAIN_AVAILABLE |-> lib, KNOWLEDGE_BASE_ID |-> kb, S3_BUCKET_NAME |-> s3,
        AWS_DEFAULT_REGION |-> region, BEDROCK_MODEL_ID |-> model,
        is_initialized |-> c.is_initialized, retriever |-> c.retriever,
        qa_chain |-> c.qa_chain]

\* a method called on None: the AttributeError the try block catches
NoneTouchedEv(attribute) == [ev |-> "AttributeError", on |-> attribute]
RetrieverEv(documents) == [ev |-> "retriever.get_relevant_documents", reply |-> documents]

SuggestionCap == 150

\* content[:150] + "..." if len(content) > 150 else content
suggestion_content(content) ==
    IF Len(content) > SuggestionCap
    THEN Prefix(content, SuggestionCap) \o <<".", ".", ".">>
    ELSE content

\* search_recipe on an instance whose qa_chain may be None
rag_search_recipe(r, dish_name, language, gateway, elapsed) ==
    IF is_available(r) /\ ~r.qa_chain
    THEN search_caught(dish_name, language, <<NoneTouchedEv("qa_chain")>>,
                       "'NoneType' object has no attribute 'invoke'", elapsed)
    ELSE search_recipe(r, dish_name, language, gateway, elapsed)

ConnectionDetails(r) ==
    [langchain_available |-> r.LANGCHAIN_AVAILABLE, knowledge_base_id |-> r.KNOWLEDGE_BASE_ID,
     s3_bucket |-> r.S3_BUCKET_NAME, initialized |-> r.is_initialized]

\* test_connection: one search for the test dish; search_recipe never raises
rag_test_connection(r, gateway, elapsed) ==
    LET o == rag_search_recipe(r, <<"t", "e", "s", "t">>, "auto", gateway, elapsed)
    IN IF ~is_available(r)
       THEN SearchOut(Ok([success |-> FALSE, error |-> "RAG service not available",
                          test_query_time |-> 0, details |-> ConnectionDetails(r)]), <<>>)
       ELSE SearchOut(Ok([success |-> TRUE, error |-> "",
                          test_query_time |-> o.ret.val.processing_time,
                          details |-> ConnectionDetails(r)]), o.trace)

\* list_available_recipes
rag_list_available_recipes(r) ==
    SearchOut(Ok([success |-> is_available(r),
                  error |-> IF is_available(r) THEN "" ELSE "RAG service not available",
                  recipes |-> <<>>]), <<>>)

Suggestions(success, error, suggestions) ==
    [success |-> success, error |-> error, suggestions |-> suggestions,
     count |-> Len(suggestions)]

\* suggest_similar_recipes: retrieval is what the retriever answers
suggest_similar_recipes(r, max_suggestions, retrieval) ==
    IF ~is_available(r)
    THEN SearchOut(Ok(Suggestions(FALSE, "RAG service not available", <<>>)), <<>>)
    ELSE IF ~r.retriever
    THEN SearchOut(Ok(Suggestions(FALSE, "AttributeError", <<>>)),
                   <<NoneTouchedEv("retriever")>>)
    ELSE IF retrieval.kind = "raise"
    THEN SearchOut(Ok(Suggestions(FALSE, retrieval.msg, <<>>)),
                   <<RetrieverEv(<<>>)>>)
    ELSE IF \E i \in 1..Len(Prefix(retrieval.source_documents, max_suggestions)) :
               retrieval.source_documents[i].page_content.t # "str"
    THEN SearchOut(Ok(Suggestions(FALSE, "TypeError", <<>>)),
                   <<RetrieverEv(retrieval.source_documents)>>)
    ELSE SearchOut(Ok(Suggestions(TRUE, "",
                      [i \in 1..Len(Prefix(retrieval.source_documents, max_suggestions)) |->
                          [content |-> suggestion_content(
                                          retrieval.source_documents[i].page_content.s),
                           metadata |-> retrieval.source_documents[i].metadata,
                           relevance_score |-> 50]])),
                   <<RetrieverEv(retrieval.source_documents)>>)

InitFailures == {"none", "retriever", "llm", "chain"}

RagGatewayOutcomes ==
    {GatewayRaise("timed out"),
     GatewayReply(Str(Chars(MinAnswerLength + 1, "a")), <<Doc(Str(<<"a">>))>>)}

RagRetrievals ==
    {GatewayRaise("timed out"),
     GatewayReply(Missing, <<>>),
     GatewayReply(Missing, <<Doc(Null)>>),
     GatewayReply(Missing, [i \in 1..4 |-> Doc(Str(Chars(SuggestionCap + (i % 2), "a")))])}

RagInit ==
    /\ now = 0
    /\ cache = EmptyCache
    /\ stored = EmptyCache
    /\ call = NoCall
    /\ ret = NoRet
    /\ trace = <<>>
    /\ stores = <<>>
    /\ arg = NoArg
    /\ res = NoRet
    /\ \E lib, kb, s3, region, model \in BOOLEAN, failure \in InitFailures :
          rag = new_rag_service(lib, kb, s3, region, model, failure)
    /\ bedrock = NewBedrock
    /\ scraper = NewScraper
    /\ clock = ClockStart
    /\ callers = NoCallers

RagFinish(op, o) ==
    /\ call' = [op |-> op, url |-> "", language |-> "auto"]
    /\ ret' = o.ret
    /\ trace' = o.trace
    /\ UNCHANGED <<now, cache, stored, stores, arg, res, services>>

RagSearchRecipe ==
    \E gateway \in RagGatewayOutcomes :
       RagFinish("search_recipe", rag_search_recipe(rag, <<"c">>, "auto", gateway, 0))

RagTestConnection ==
    \E gateway \in RagGatewayOutcomes :
       RagFinish("test_connection", rag_test_connection(rag, gateway, 0))

RagListAvailableRecipes ==
    RagFinish("list_available_recipes", rag_list_available_recipes(rag))

RagSuggestSimilarRecipes ==
    \E retrieval \in RagRetrievals :
       RagFinish("suggest_similar_recipes", suggest_similar_recipes(rag, 3, retrieval))

RagNext == RagSearchRecipe \/ RagTestConnection \/ RagListAvailableRecipes
           \/ RagSuggestSimilarRecipes

SpecRag == RagInit /\ [][RagNext]_vars


(***************************************************************************)
(* The two gateways: BedrockService.invoke_model (bedrock_service.py) and  *)
(* WebScraperService.fetch_page_content (web_scraper.py).  Time is in      *)
(* milliseconds; a message is the sequence of its parts.                   *)
(***************************************************************************)
Err(type, msg) == [type |-> type, msg |-> msg]

no_sleep(last_request_time, current_time, interval) == 0

\* sleep_time of _rate_limit: interval - time_since_last when that is positive
sleep_time(last_request_time, current_time, interval) ==
    IF current_time - last_request_time < interval
    THEN interval - (current_time - last_request_time)
    ELSE 0

RateLimitEv(who, slept, stamp) ==
    [ev |-> "rate_limit", who |-> who, slept |-> slept, stamp |-> stamp]
RequestEv(who, outcome) == [ev |-> "request", who |-> who, outcome |-> outcome]

\* _rate_limit: time.sleep returns after at least the time asked for
rate_limit(who, current_time, slept, overshoot) ==
    RateLimitEv(who, slept, current_time + slept + (IF slept > 0 THEN overshoot ELSE 0))

GatewayOut(r, tr, last, t) == [ret |-> r, trace |-> tr, last_request_time |-> last, clock |-> t]

error_type_runtime(error_code) == "RuntimeError"

\* the exception class raised for a ClientError
error_type(error_code) ==
    IF error_code = "ValidationException" THEN "ValueError" ELSE "RuntimeError"

\* lines 256-279: the message for a ClientError
client_error_message(error_code, error_message, model_id) ==
    CASE error_code = "ThrottlingException" ->
            <<"Rate limit exceeded. Please try again later.">>
      [] error_code = "ValidationException" ->
            <<"Invalid request parameters: ", error_message>>
      [] error_code = "AccessDeniedException" ->
            <<"Access denied. Please check your AWS permissions for Bedrock.">>
      [] error_code = "ResourceNotFoundException" ->
            <<"Model ", model_id, " not found or not available in region ">>
      [] OTHER ->
            <<"Bedrock API error (", error_code, "): ", error_message>>

\* lines 188-254: the reply body read, parsed and turned into the result
invoke_result(model_id, body) ==
    CASE body = "not json"   -> Raise(Err("RuntimeError",
                                         <<"Failed to invoke model: ", "JSONDecodeError">>))
      [] body = "no content" /\ model_id = "anthropic.claude" ->
                                Raise(Err("RuntimeError",
                                         <<"Failed to invoke model: ", "IndexError">>))
      [] OTHER               -> Ok([content |-> IF body = "no content" THEN "" ELSE body,
                                    model_id |-> model_id])

\* lines 188-297: one client.invoke_model call and what becomes of its outcome
invoke_outcome(model_id, gateway) ==
    CASE gateway.kind = "ClientError" ->
            Raise(Err(error_type(gateway.code),
                      client_error_message(gateway.code, gateway.message, model_id)))
      [] gateway.kind = "BotoCoreError" ->
            Raise(Err("RuntimeError", <<"Network error connecting to Bedrock service">>))
      [] gateway.kind = "Exception" ->
            Raise(Err("RuntimeError", <<"Failed to invoke model: ", gateway.message>>))
      [] OTHER -> invoke_result(model_id, gateway.body)

invoke_after_rate_limit(model_id, gateway, rl) ==
    GatewayOut(invoke_outcome(model_id, gateway),
               <<rl, RequestEv("bedrock", gateway)>>, rl.stamp, rl.stamp)

\* invoke_model
invoke_model(b, t, model_id, gateway, overshoot) ==
    IF ~b.client
    THEN GatewayOut(Raise(Err("RuntimeError", <<"Bedrock client not initialized">>)),
                    <<>>, b.last_request_time, t)
    ELSE invoke_after_rate_limit(
            IF model_id = "" THEN "anthropic.claude" ELSE model_id, gateway,
            rate_limit("bedrock", t,
                       sleep_time(b.last_request_time, t, min_request_interval), overshoot))

\* the three names of the local machine that _validate_url looks for
PrivateHosts == {"localhost", "127.0.0.1", "0.0.0.0"}

validate_url_exact(url) ==
    /\ url.scheme # "" /\ url.netloc # <<>>
    /\ url.scheme \in {"http", "https"}
    /\ url.netloc \notin {<<h>> : h \in PrivateHosts}

\* _validate_url: scheme and network location present, http or https, none
\* of the local names anywhere in netloc.lower().  A URL is its text with the
\* scheme and the network location urlparse finds in it; the network
\* location is a sequence of pieces, "@" ends the user information.
validate_url(url) ==
    /\ url.scheme # "" /\ url.netloc # <<>>
    /\ url.scheme \in {"http", "https"}
    /\ ~\E i \in 1..Len(url.netloc) : Lower(url.netloc[i]) \in PrivateHosts

http_error_generic(status_code) == Raise(Err("RuntimeError", <<"HTTP error ", status_code>>))

\* lines 198-214: the failure raised for an HTTPError
http_error(status_code) ==
    CASE status_code = 404 -> Raise(Err("RuntimeError", <<"Page not found (404)">>))
      [] status_code = 403 ->
            Raise(Err("RuntimeError",
                      <<"Access forbidden (403) - website may be blocking automated requests">>))
      [] status_code = 429 ->
            Raise(Err("RuntimeError", <<"Rate limited (429) - too many requests">>))
      [] OTHER -> Raise(Err("RuntimeError", <<"HTTP error ", status_code>>))

\* response.raise_for_status(): HTTPError for a status in 400..599
raises_for_status(status_code) == 400 <= status_code /\ status_code < 600

\* lines 145-222: one session.get call and what becomes of its outcome
fetch_outcome(url, http) ==
    CASE http.kind = "Timeout" ->
            Raise(Err("RuntimeError",
                      <<"Request timeout - the website took too long to respond">>))
      [] http.kind = "ConnectionError" ->
            Raise(Err("RuntimeError", <<"Connection error - unable to reach the website">>))
      [] http.kind = "Exception" ->
            Raise(Err("RuntimeError", <<"Failed to fetch page content: ", http.message>>))
      [] OTHER ->
            IF raises_for_status(http.status_code) THEN http_error(http.status_code)
            ELSE IF ~http.parses
                 THEN Raise(Err("RuntimeError",
                                <<"Failed to fetch page content: ",
                                  "Failed to parse HTML content: ">>))
                 ELSE Ok([url |-> url, status_code |-> http.status_code])

fetch_after_rate_limit(url, http, rl) ==
    GatewayOut(fetch_outcome(url, http), <<rl, RequestEv("scraper", http)>>, rl.stamp, rl.stamp)

\* fetch_page_content
fetch_page_content(s, t, url, http, overshoot) ==
    IF ~validate_url(url)
    THEN GatewayOut(Raise(Err("ValueError", <<"Invalid or unsafe URL: ", url.text>>)),
                    <<>>, s.last_request_time, t)
    ELSE fetch_after_rate_limit(url, http,
            rate_limit("scraper", t,
                       sleep_time(s.last_request_time, t, WEB_SCRAPER_DELAY), overshoot))

(***************************************************************************)
(* Specification of the two gateways under sequential use                  *)
(***************************************************************************)
MaxClock == 3100

ClockSteps == {min_request_interval, WEB_SCRAPER_DELAY}
Overshoots == {0, min_request_interval}

ClientError(code, message) ==
    [kind |-> "ClientError", code |-> code, message |-> message, body |-> ""]
BedrockReply(body) == [kind |-> "reply", code |-> "", message |-> "", body |-> body]

BedrockOutcomes ==
    {ClientError(code, "m") :
        code \in {"ThrottlingException", "ValidationException", "AccessDeniedException",
                  "ResourceNotFoundException", "ServiceUnavailableException"}}
    \cup {[kind |-> "BotoCoreError", code |-> "", message |-> "", body |-> ""],
          [kind |-> "Exception", code |-> "", message |-> "boom", body |-> ""]}
    \cup {BedrockReply(body) : body \in {"text", "no content", "not json"}}

ModelIds == {"", "other"}

HttpFailure(kind, message) ==
    [kind |-> kind, message |-> message, status_code |-> 0, parses |-> FALSE]
HttpResponse(status_code, parses) ==
    [kind |-> "response", message |-> "", status_code |-> status_code, parses |-> parses]

HttpOutcomes ==
    {HttpFailure("Timeout", ""), HttpFailure("ConnectionError", ""),
     HttpFailure("Exception", "RetryError")}
    \cup {HttpResponse(status_code, TRUE) : status_code \in {200, 403, 404, 429, 500}}
    \cup {HttpResponse(200, FALSE)}

Url(text, scheme, netloc) == [text |-> text, scheme |-> scheme, netloc |-> netloc]
FetchUrls == {Url("https://example.com", "https", <<"example.com">>),
              Url("ftp://example.com", "ftp", <<"example.com">>),
              Url("http://localhost", "http", <<"localhost">>)}

GatewayInit ==
    /\ now = 0
    /\ cache = EmptyCache
    /\ stored = EmptyCache
    /\ call = NoCall
    /\ ret = NoRet
    /\ trace = <<>>
    /\ stores = <<>>
    /\ arg = NoArg
    /\ res = NoRet
    /\ rag = NoRag
    /\ bedrock = NewBedrock
    /\ scraper = NewScraper
    /\ clock = ClockStart
    /\ callers = NoCallers

GatewayFinish(op, o) ==
    /\ o.clock <= MaxClock
    /\ call' = [op |-> op, url |-> "", language |-> ""]
    /\ ret' = o.ret
    /\ trace' = o.trace
    /\ clock' = o.clock
    /\ UNCHANGED <<now, cache, stored, stores, arg, res, rag, callers>>

InvokeModel ==
    \E model_id \in ModelIds, gateway \in BedrockOutcomes, overshoot \in Overshoots :
       LET o == invoke_model(bedrock, clock, model_id, gateway, overshoot)
       IN /\ GatewayFinish("invoke_model", o)
          /\ bedrock' = [bedrock EXCEPT !.last_request_time = o.last_request_time]
          /\ UNCHANGED scraper

FetchPageContent ==
    \E url \in FetchUrls, http \in HttpOutcomes, overshoot \in Overshoots :
       LET o == fetch_page_content(scraper, clock, url, http, overshoot)
       IN /\ GatewayFinish("fetch_page_content", o)
          /\ scraper' = IF o.trace = <<>> THEN scraper
                         ELSE update_headers(
                                 [scraper EXCEPT !.last_request_time = o.last_request_time])
          /\ UNCHANGED bedrock

\* time passes between two calls
Advance ==
    \E d \in ClockSteps :
       /\ clock + d <= MaxClock
       /\ clock' = clock + d
       /\ UNCHANGED <<now, cache, stored, call, ret, trace, stores, arg, res,
                      rag, bedrock, scraper, callers>>

GatewayNext == InvokeModel \/ FetchPageContent \/ Advance

SpecGateways == GatewayInit /\ [][GatewayNext]_vars


(***************************************************************************)
(* Concurrent callers of BedrockService.invoke_model on one instance.      *)
(* _rate_limit is not atomic: a caller reads the clock and                 *)
(* last_request_time, sleeps if it has to, writes last_request_time, and   *)
(* then sends its request; the steps of two callers interleave.            *)
(***************************************************************************)
Callers == {1, 2}

HalfInterval == min_request_interval \div 2
RaceMaxClock == ClockStart + 3 * min_request_interval

\* position of a caller: pc, what it computed, and the global step numbers
\* of its read and of its write of last_request_time
Caller(pc, sleep, wake, stamp, read_step, write_step) ==
    [pc |-> pc, sleep |-> sleep, wake |-> wake, stamp |-> stamp,
     read_step |-> read_step, write_step |-> write_step]

IdleCaller == Caller("idle", 0, 0, 0, 0, 0)

SentEv(who, at) == [ev |-> "request", who |-> who, at |-> at]

\* an instance that has served requests before, the last one up to now
RaceInit ==
    /\ now = 0
    /\ cache = EmptyCache
    /\ stored = EmptyCache
    /\ call = NoCall
    /\ ret = NoRet
    /\ trace = <<>>
    /\ stores = <<>>
    /\ arg = NoArg
    /\ res = NoRet
    /\ rag = NoRag
    /\ bedrock \in {[NewBedrock EXCEPT !.last_request_time = last] :
                       last \in {0, ClockStart - HalfInterval, ClockStart}}
    /\ scraper = NewScraper
    /\ clock = ClockStart
    /\ callers = [step |-> 0, of |-> [c \in Callers |-> IdleCaller]]

RaceStep(c, caller) ==
    callers' = [step |-> callers.step + 1, of |-> [callers.of EXCEPT ![c] = caller]]

RaceFrame == UNCHANGED <<now, cache, stored, call, ret, stores, arg, res, rag, scraper>>

\* lines 84-87: current_time and time_since_last are read, sleep_time computed
RateLimitRead(c) ==
    LET slept == sleep_time(bedrock.last_request_time, clock, min_request_interval)
    IN /\ callers.of[c].pc = "idle"
       /\ RaceStep(c, Caller(IF slept > 0 THEN "sleeping" ELSE "awake", slept, clock + slept,
                             0, callers.step + 1, 0))
       /\ UNCHANGED <<bedrock, clock, trace>>
       /\ RaceFrame

\* line 90: time.sleep returns once the time asked for has passed
RateLimitWake(c) ==
    /\ callers.of[c].pc = "sleeping"
    /\ clock >= callers.of[c].wake
    /\ RaceStep(c, [callers.of[c] EXCEPT !.pc = "awake"])
    /\ UNCHANGED <<bedrock, clock, trace>>
    /\ RaceFrame

\* line 92: self.last_request_time = time.time()
RateLimitWrite(c) ==
    /\ callers.of[c].pc = "awake"
    /\ RaceStep(c, [callers.of[c] EXCEPT !.pc = "limited", !.stamp = clock,
                                         !.write_step = callers.step + 1])
    /\ bedrock' = [bedrock EXCEPT !.last_request_time = clock]
    /\ UNCHANGED <<clock, trace>>
    /\ RaceFrame

\* lines 195-200: the request goes to the gateway
RaceRequest(c) ==
    /\ callers.of[c].pc = "limited"
    /\ RaceStep(c, [callers.of[c] EXCEPT !.pc = "done"])
    /\ trace' = Append(trace, SentEv(c, clock))
    /\ UNCHANGED <<bedrock, clock>>
    /\ RaceFrame

RaceAdvance ==
    /\ clock + HalfInterval <= RaceMaxClock
    /\ clock' = clock + HalfInterval
    /\ UNCHANGED <<bedrock, trace, callers>>
    /\ RaceFrame

RaceNext ==
    \/ \E c \in Callers : RateLimitRead(c)
    \/ \E c \in Callers : RateLimitWake(c)
    \/ \E c \in Callers : RateLimitWrite(c)
    \/ \E c \in Callers : RaceRequest(c)
    \/ RaceAdvance

SpecRace == RaceInit /\ [][RaceNext]_vars


(***************************************************************************)
(* Specification of URL validation: fetch_page_content alone and under     *)
(* detect_recipe                                                           *)
(***************************************************************************)
UrlPool ==
    {Url("https://example.com", "https", <<"example.com">>),
     Url("http://example.com/path", "http", <<"example.com">>),
     Url("not-a-url", "", <<>>),
     Url("http:///path", "http", <<>>),
     Url("ftp://example.com", "ftp", <<"example.com">>),
     Url("https://localhost", "https", <<"localhost">>),
     Url("http://127.0.0.1", "http", <<"127.0.0.1">>),
     Url("http://0.0.0.0:80", "http", <<"0.0.0.0", ":80">>),
     Url("https://LOCALHOST", "https", <<"LOCALHOST">>),
     Url("http://mylocalhost.com", "http", <<"my", "localhost", ".com">>),
     Url("http://localhost@example.com", "http", <<"localhost", "@", "example.com">>)}

UrlHttpOutcomes  == {HttpResponse(200, TRUE), HttpFailure("Timeout", "")}
UrlReplyOutcomes == {JsonReply(FullDict(Bool(TRUE), Num(90))), InvokeFailed}

\* the page _parse_html_content makes of a response
ParsedPage(f) == IF f.ret.ok THEN Page(<<"t">>, Null, <<"c">>) ELSE FetchFailed

UrlFinish(op, url, r, tr, f) ==
    /\ f.clock <= MaxClock
    /\ call' = [op |-> op, url |-> url, language |-> "auto"]
    /\ ret' = r
    /\ trace' = tr
    /\ clock' = f.clock
    /\ scraper' = IF f.trace = <<>> THEN scraper
                  ELSE update_headers(
                          [scraper EXCEPT !.last_request_time = f.last_request_time])
    /\ UNCHANGED <<now, arg, res, rag, bedrock, callers>>

UrlFetchPageContent ==
    \E url \in UrlPool, http \in UrlHttpOutcomes :
       LET f == fetch_page_content(scraper, clock, url, http, 0)
       IN /\ UrlFinish("fetch_page_content", url, f.ret, f.trace, f)
          /\ UNCHANGED <<cache, stored, stores>>

\* detect_recipe answered from the cache: the scraper is not called
UrlDetectCached(url, d) ==
    /\ d.trace = <<>>
    /\ UrlFinish("detect_recipe", url, d.ret, <<>>, GatewayOut(d.ret, <<>>, 0, clock))

\* detect_recipe calling fetch_page_content: the scraper's events follow the call
UrlDetectFetched(url, d, f) ==
    /\ d.trace # <<>>
    /\ UrlFinish("detect_recipe", url, d.ret, <<Head(d.trace)>> \o f.trace \o Tail(d.trace), f)

UrlDetectStore(url, d, f) ==
    /\ UrlDetectCached(url, d) \/ UrlDetectFetched(url, d, f)
    /\ cache' = d.cache
    /\ stored' = ApplyStores(stored, d.stores)
    /\ stores' = d.stores

UrlDetectOn(url, reply, f) ==
    UrlDetectStore(url, detect_recipe(cache, now, url.text, "auto", ParsedPage(f), reply), f)

UrlDetectRecipe ==
    \E url \in UrlPool, http \in UrlHttpOutcomes, reply \in UrlReplyOutcomes :
       UrlDetectOn(url, reply, fetch_page_content(scraper, clock, url, http, 0))

UrlNext == UrlFetchPageContent \/ UrlDetectRecipe

SpecUrl == GatewayInit /\ [][UrlNext]_vars


(***************************************************************************)
(* Properties                                                              *)
(***************************************************************************)

\* C1: every result detect_recipe returns (from the model, from the
\* empty-content short-circuit or from the cache) has is_recipe true only
\* with confidence >= 0.7; a clamped model confidence below 0.7 forces
\* is_recipe to false and appends the threshold note to reason, a confidence
\* of 0.7 or more leaves flag and reason alone, and a raw false flag never
\* becomes true.
C1_ThresholdInvariant ==
    /\ (call.op = "detect_recipe" /\ ret.ok)
          => (Truthy(ret.val.is_recipe) => ret.val.confidence >= recipe_confidence_threshold)
    /\ (/\ call.op = "detect_recipe"
        /\ ret.ok
        /\ LastEv(trace) = "invoke_detect"
        /\ trace[Len(trace)].data.text = <<"{", "m", "}">>)
          => LET raw == trace[Len(trace)].data.members
                 v   == IF raw.confidence = Missing THEN 0 ELSE raw.confidence.n
                 c   == IF v > 100 THEN 100 ELSE IF v < 0 THEN 0 ELSE v
             IN /\ c < 70 => /\ ret.val.is_recipe = Bool(FALSE)
                             /\ ret.val.reason = Str(Append(raw.reason.s, ThresholdNote))
                /\ c >= 70 => /\ ret.val.is_recipe = raw.is_recipe
                              /\ ret.val.reason = raw.reason
                /\ ~Truthy(raw.is_recipe) => ~Truthy(ret.val.is_recipe)

\* a reply claiming a recipe with confidence 0.69 came back as not-a-recipe
C1_Witness ==
    /\ call.op = "detect_recipe"
    /\ ret.ok
    /\ LastEv(trace) = "invoke_detect"
    /\ trace[Len(trace)].data.members.is_recipe = Bool(TRUE)
    /\ trace[Len(trace)].data.members.confidence = Num(69)
    /\ ret.val.is_recipe = Bool(FALSE)
    /\ ret.val.confidence = 69

\* C2: for a numeric raw confidence v the validated detection, extraction
\* and search confidence is min(1, max(0, v)); a missing confidence gives
\* 0.0; every validated confidence lies in [0, 1].
C2_ConfidenceClamped ==
    /\ (arg.fn \in {"detection", "ingredient", "retrieval"} /\ res # NoRet /\ res.ok)
          => LET raw == arg.members.confidence
                 got == IF arg.fn = "retrieval" THEN res.val.n ELSE res.val.confidence
             IN /\ got \in 0..100
                /\ raw = Missing => got = 0
                /\ raw.t = "num" => got = (IF raw.n > 100 THEN 100
                                           ELSE IF raw.n < 0 THEN 0 ELSE raw.n)
    /\ (arg.fn = "search" /\ res # NoRet)
          => /\ res.ok
             /\ res.val.n = (IF 20 * arg.ndocs > 100 THEN 100 ELSE 20 * arg.ndocs)

\* a model confidence of 1.5 validated to 1.0
C2_Witness ==
    /\ arg.fn = "detection"
    /\ arg.members.confidence = Num(150)
    /\ res.ok
    /\ res # NoRet
    /\ res.val.confidence = 100

\* C3: after the page fetch and the model call succeeded, detect_recipe and
\* extract_ingredients return a result whatever the reply text was.
C3_NeverRaisesOnReply ==
    (/\ call.op \in {"detect_recipe", "extract_ingredients"}
     /\ \A i \in 1..Len(trace) :
           trace[i].ev \in {"fetch", "invoke_detect", "invoke_extract"} => trace[i].flag)
       => ret.ok

\* C4: a payload stored under a key and not stored again is what
\* _get_from_cache returns while less than 3600 s have passed; from 3600 s on
\* the read misses and leaves the cache without the key.  Every entry
\* _set_cache writes or overwrites carries the payload and the current time.
C4_CacheRoundTrip ==
    /\ [](\A k \in DOMAIN stored :
            LET K == get_cache_key(k[2], k[1] \o "_" \o k[3])
                g == get_from_cache(cache, K, now)
            IN IF now - stored[k].timestamp < 3600
               THEN g.found /\ g.data = stored[k].data /\ g.cache = cache
               ELSE ~g.found /\ g.data = NoData /\ K \notin DOMAIN g.cache)
    /\ [][\A K \in DOMAIN cache' :
            (K \notin DOMAIN cache \/ cache'[K] # cache[K])
               => /\ cache'[K].timestamp = now
                  /\ \E i \in 1..Len(stores') :
                        /\ stores'[i].at = now
                        /\ cache'[K].data = stores'[i].data]_vars

\* an entry was read 3600 s or more after its store and evicted
C4_Witness ==
    \E k \in DOMAIN stored :
        /\ now - stored[k].timestamp >= 3600
        /\ get_cache_key(k[2], k[1] \o "_" \o k[3]) \notin DOMAIN cache
        /\ call.op \in {"detect_recipe", "extract_ingredients", "analyze_url"}
        /\ trace # <<>>

C6_ExtractionGated ==
    /\ \A i \in 1..Len(trace) :
          trace[i].ev = "invoke_extract"
             => \E j \in 1..(i - 1) :
                   /\ trace[j].ev = "detect_returned"
                   /\ trace[j].flag
                   /\ trace[j].url = trace[i].url
                   /\ trace[j].language = trace[i].language
    /\ \A j \in 1..Len(trace) :
          (trace[j].ev = "detect_returned" /\ ~trace[j].flag)
             => /\ j = Len(trace)
                /\ ret.ok
                /\ ret.val.ingredients = <<>>

\* a call stopped at a not-a-recipe verdict after a model call
C6_Witness ==
    /\ call.op \in {"extract_ingredients", "analyze_url"}
    /\ Len(trace) = 3
    /\ trace[2].ev = "invoke_detect"
    /\ trace[3].ev = "detect_returned"
    /\ ~trace[3].flag
    /\ ret.ok
    /\ ret.val.ingredients = <<>>

\* C7: total_ingredients is the length of ingredients in every result of
\* extract_ingredients and analyze_url.
C7_TotalIsLength ==
    (ret.ok /\ ret.val.kind \in {"extraction", "analysis"})
       => ret.val.total_ingredients = Len(ret.val.ingredients)

\* an extraction that dropped one of the three entries of the reply
C7_Witness ==
    /\ call.op = "extract_ingredients"
    /\ ret.ok
    /\ LastEv(trace) = "invoke_extract"
    /\ Len(trace[Len(trace)].data.members.ingredients.items) = 3
    /\ Len(ret.val.ingredients) = 2
    /\ ret.val.total_ingredients = 2

\* C8 as stated: the kept entries are exactly those whose name, converted
\* to a string and trimmed, is non-empty, in input order, each with the four
\* trimmed string fields.
C8_KeepsNonEmptyNames ==
    (arg.fn = "ingredient" /\ res # NoRet /\ res.ok /\ arg.members.ingredients.t = "list")
       => LET raw     == arg.members.ingredients.items
              S(v)    == Strip(PyStr(IF v = Missing THEN Str(<<>>) ELSE v))
              Keep(e) == e.isdict /\ S(e.name) # <<>>
              idx     == {i \in 1..Len(raw) : Keep(raw[i])}
              kept    == res.val.ingredients
          IN /\ Len(kept) = Cardinality(idx)
             /\ \A i \in idx :
                   kept[Cardinality({j \in idx : j <= i})]
                      = [name |-> S(raw[i].name), quantity |-> S(raw[i].quantity),
                         unit |-> S(raw[i].unit), notes |-> S(raw[i].notes)]

\* C8 amended: the kept entries are exactly the objects whose raw name is
\* truthy (not missing, null, false, 0 or "") and, converted to a string and
\* trimmed, non-empty; in input order with duplicates, each with exactly the
\* four fields name, quantity, unit, notes as trimmed strings, "" if missing.
C8_KeepsTruthyNames ==
    (arg.fn = "ingredient" /\ res # NoRet /\ res.ok /\ arg.members.ingredients.t = "list")
       => LET raw     == arg.members.ingredients.items
              S(v)    == Strip(PyStr(IF v = Missing THEN Str(<<>>) ELSE v))
              Keep(e) == e.isdict /\ Truthy(e.name) /\ S(e.name) # <<>>
              idx     == {i \in 1..Len(raw) : Keep(raw[i])}
              kept    == res.val.ingredients
          IN /\ Len(kept) = Cardinality(idx)
             /\ \A i \in idx :
                   kept[Cardinality({j \in idx : j <= i})]
                      = [name |-> S(raw[i].name), quantity |-> S(raw[i].quantity),
                         unit |-> S(raw[i].unit), notes |-> S(raw[i].notes)]

\* an entry named 0 was dropped and the entry named " Salt " kept, trimmed
C8_Witness ==
    /\ arg.fn = "ingredient"
    /\ res # NoRet
    /\ res.ok
    /\ arg.members.ingredients.t = "list"
    /\ Len(arg.members.ingredients.items) = 2
    /\ arg.members.ingredients.items[1].name = Num(0)
    /\ arg.members.ingredients.items[2].name = Str(<<" ", "Salt", " ">>)
    /\ arg.members.ingredients.items[2].quantity = Num(2)
    /\ res.val.ingredients =
          <<[name |-> <<"Salt">>, quantity |-> <<"2">>, unit |-> <<>>, notes |-> <<"x">>]>>

\* C9: a reply without a brace-delimited span, or whose span does not
\* decode, parses to the fallback record: is_recipe iff the lower-cased reply
\* holds one of the seven keywords, confidence 0.5, no detected elements,
\* language ja iff the reply holds a Hiragana, Katakana or Kanji character.
C9_FallbackRecord ==
    (/\ arg.fn = "parse"
     /\ res # NoRet
     /\ \/ ~ \E i, j \in 1..Len(arg.text) : i < j /\ arg.text[i] = "{" /\ arg.text[j] = "}"
        \/ ~ json_loads(re_search_braces(arg.text), arg.members).ok)
       => /\ res.ok
          /\ res.val.is_recipe
                = Bool(\E i \in 1..Len(arg.text) : Lower(arg.text[i]) \in FallbackKeywords)
          /\ res.val.confidence = Num(50)
          /\ res.val.detected_elements = List(0)
          /\ res.val.language
                = Str(IF \E i \in 1..Len(arg.text) : arg.text[i] \in JapaneseTokens
                      THEN <<"ja">> ELSE <<"en">>)

\* a reply with a capitalised keyword inside a span that does not decode
C9_Witness ==
    /\ arg.fn = "parse"
    /\ res # NoRet
    /\ arg.text = <<"{", "Recipe", "}">>
    /\ res.val.is_recipe = Bool(TRUE)
    /\ res.val.confidence = Num(50)
    /\ res.val.language = Str(<<"en">>)

\* C10: when the fetched page has no title, no meta description and no
\* content, detect_recipe returns is_recipe = false with confidence 0.0 and
\* the model is not invoked during the call.
C10_EmptyContentGuard ==
    (/\ call.op = "detect_recipe"
     /\ trace # <<>>
     /\ trace[1].ev = "fetch"
     /\ trace[1].flag
     /\ trace[1].data.title = <<>>
     /\ ~Truthy(trace[1].data.meta)
     /\ trace[1].data.content = <<>>)
       => /\ Len(trace) = 1
          /\ ret.ok
          /\ ret.val.is_recipe = Bool(FALSE)
          /\ ret.val.confidence = 0

\* detect_recipe answered a page without any text
C10_Witness ==
    /\ call.op = "detect_recipe"
    /\ Len(trace) = 1
    /\ trace[1].ev = "fetch"
    /\ trace[1].flag
    /\ trace[1].data.title = <<>>
    /\ trace[1].data.content = <<>>
    /\ ret.ok
    /\ ret.val.is_recipe = Bool(FALSE)
    /\ ret.val.confidence = 0


\* C11: the not-recipe result of the empty-content short-circuit is stored
\* under the detection key of the call, so that a repeated detect_recipe is
\* answered from the cache.
C11_EmptyResultCached ==
    (/\ call.op = "detect_recipe"
     /\ ret.ok
     /\ Len(trace) = 1
     /\ trace[1].ev = "fetch"
     /\ trace[1].flag)
       => get_cache_key(call.url, "detect_" \o call.language) \in DOMAIN cache

\* C12: a failed page fetch or model invocation is the last remote call of
\* its detect_recipe, extract_ingredients or analyze_url call, the call
\* raises, and the operation that failed stores nothing and has no cache
\* entry afterwards.
C12_FailuresPropagate ==
    \A i \in 1..Len(trace) :
       (trace[i].ev \in {"fetch", "invoke_detect", "invoke_extract"} /\ ~trace[i].flag)
          => /\ i = Len(trace)
             /\ ~ret.ok
             /\ LET op == IF \E j \in 1..(i - 1) : trace[j].ev = "detect_returned"
                          THEN "extract" ELSE "detect"
                IN /\ \A k \in 1..Len(stores) : stores[k].op # op
                   /\ get_cache_key(trace[i].url, op \o "_" \o trace[i].language)
                         \notin DOMAIN cache

\* analyze_url stored its detection and then failed on the extraction model call
C12_Witness ==
    /\ call.op = "analyze_url"
    /\ ~ret.ok
    /\ LastEv(trace) = "invoke_extract"
    /\ ~trace[Len(trace)].flag
    /\ Len(stores) = 1
    /\ stores[1].op = "detect"
    /\ get_cache_key(call.url, "extract_" \o call.language) \notin DOMAIN cache

C14_UnavailableAnswer ==
    (/\ call.op = "search_recipe"
     /\ ~(/\ rag.LANGCHAIN_AVAILABLE
          /\ rag.KNOWLEDGE_BASE_ID /\ rag.S3_BUCKET_NAME
          /\ rag.AWS_DEFAULT_REGION /\ rag.BEDROCK_MODEL_ID
          /\ rag.is_initialized))
       => /\ ret.ok
          /\ ret.val.recipe_found = FALSE
          /\ ret.val.confidence = Num(0)
          /\ ret.val.processing_time = 0
          /\ "error" \in DOMAIN ret.val /\ ret.val.error # ""
          /\ trace = <<>>

C14_Witness ==
    /\ call.op = "search_recipe"
    /\ rag.LANGCHAIN_AVAILABLE /\ rag.KNOWLEDGE_BASE_ID /\ rag.S3_BUCKET_NAME
    /\ rag.AWS_DEFAULT_REGION /\ rag.BEDROCK_MODEL_ID /\ ~rag.is_initialized
    /\ ret.ok /\ ret.val.error = "Service not available" /\ trace = <<>>

\* C15: when the gateway answered and nothing failed, recipe_found is true
\* exactly when the answer is a string whose trimmed length exceeds 50,
\* whatever the sources and the confidence.
C15_FoundIffLongAnswer ==
    (/\ call.op = "search_recipe" /\ Len(trace) = 1 /\ trace[1].reply.kind = "reply")
       => LET answer == Get(trace[1].reply, "result", Str(<<>>))
          IN ret.val.recipe_found
                <=> (answer.t = "str" /\ Len(Strip(answer.s)) > MinAnswerLength)

C15_Witness ==
    /\ call.op = "search_recipe" /\ Len(trace) = 1 /\ trace[1].reply.kind = "reply"
    /\ ret.val.recipe_found
    /\ Len(trace[1].reply.result.s) = MinAnswerLength + 3
    /\ Len(Strip(trace[1].reply.result.s)) = MinAnswerLength + 1
    /\ ret.val.sources = <<>> /\ ret.val.confidence = Num(0)

\* C16: the sources of a successful result are the first min(3, n) of the n
\* retrieved passages, in order; a content is the first 200 characters and
\* "..." for a passage longer than 200 characters, the passage otherwise.
C16_SourcesCappedAndCut ==
    (/\ call.op = "search_recipe" /\ Len(trace) = 1 /\ trace[1].reply.kind = "reply")
       => LET documents == trace[1].reply.source_documents
              n == Len(documents)
          IN /\ Len(ret.val.sources) = IF n < SourceCap THEN n ELSE SourceCap
             /\ \A i \in 1..Len(ret.val.sources) :
                   LET passage == documents[i].page_content.s
                   IN ret.val.sources[i].content =
                         IF Len(passage) > ContentCap
                         THEN SubSeq(passage, 1, ContentCap) \o <<".", ".", ".">>
                         ELSE passage

C16_Witness ==
    /\ call.op = "search_recipe" /\ Len(trace) = 1 /\ trace[1].reply.kind = "reply"
    /\ Len(trace[1].reply.source_documents) = SourceCap + 1
    /\ Len(ret.val.sources) = SourceCap
    /\ Len(trace[1].reply.source_documents[1].page_content.s) = ContentCap + 1
    /\ Len(ret.val.sources[1].content) = ContentCap + 3
    /\ Len(ret.val.sources[2].content) = ContentCap

\* C17: every result search_recipe returns after invoking the gateway has a
\* query_used field holding the query that was sent to the gateway.
C17_QueryUsedReported ==
    (call.op = "search_recipe" /\ trace # <<>>)
       => /\ ret.ok
          /\ "query_used" \in DOMAIN ret.val
          /\ ret.val.query_used = trace[1].query

\* C18: under sequential use _rate_limit runs right before every gateway
\* request; it sleeps for (interval - elapsed) exactly when the time since
\* the previous stamp is below the interval, then stamps the time after the
\* sleep, so that consecutive stamps of an instance are at least the interval
\* apart: 100 ms for invoke_model, the scraper delay for fetch_page_content.
C18_MinimumSpacing ==
    /\ [](\A i \in 1..Len(trace) :
             trace[i].ev = "request" =>
                /\ i > 1
                /\ trace[i - 1].ev = "rate_limit"
                /\ trace[i - 1].who = trace[i].who)
    /\ [][/\ (trace' # <<>> /\ call'.op = "invoke_model")
               => LET elapsed == clock - bedrock.last_request_time
                  IN /\ trace'[1].ev = "rate_limit"
                     /\ trace'[1].slept = IF elapsed < min_request_interval
                                          THEN min_request_interval - elapsed ELSE 0
                     /\ trace'[1].stamp >= clock + trace'[1].slept
                     /\ bedrock'.last_request_time = trace'[1].stamp
                     /\ bedrock'.last_request_time - bedrock.last_request_time
                           >= min_request_interval
          /\ (trace' # <<>> /\ call'.op = "fetch_page_content")
               => LET elapsed == clock - scraper.last_request_time
                  IN /\ trace'[1].ev = "rate_limit"
                     /\ trace'[1].slept = IF elapsed < WEB_SCRAPER_DELAY
                                          THEN WEB_SCRAPER_DELAY - elapsed ELSE 0
                     /\ trace'[1].stamp >= clock + trace'[1].slept
                     /\ scraper'.last_request_time = trace'[1].stamp
                     /\ scraper'.last_request_time - scraper.last_request_time
                           >= WEB_SCRAPER_DELAY]_<<call, trace, bedrock, scraper>>

C18_Witness ==
    /\ call.op = "fetch_page_content" /\ Len(trace) = 2
    /\ trace[1].who = "scraper"
    /\ trace[1].slept = WEB_SCRAPER_DELAY - min_request_interval
    /\ bedrock.last_request_time > 0
    /\ scraper.last_request_time - bedrock.last_request_time >= trace[1].slept

\* C19: a failed gateway call makes invoke_model raise, after exactly one
\* gateway call: throttling, access denied, resource not found, transport
\* and unknown failures as RuntimeError with their own messages, a
\* validation failure as ValueError; none is answered with a result.
C19_GatewayFailuresMapped ==
    \A i \in 1..Len(trace) :
       (/\ trace[i].ev = "request" /\ trace[i].who = "bedrock"
        /\ trace[i].outcome.kind # "reply")
          => LET g == trace[i].outcome
             IN /\ ~ret.ok
                /\ Cardinality({j \in 1..Len(trace) : trace[j].ev = "request"}) = 1
                /\ ret.err.type = IF g.kind = "ClientError" /\ g.code = "ValidationException"
                                  THEN "ValueError" ELSE "RuntimeError"
                /\ ret.err.msg[1] =
                      CASE g.kind = "BotoCoreError" ->
                              "Network error connecting to Bedrock service"
                        [] g.kind = "Exception" -> "Failed to invoke model: "
                        [] g.code = "ThrottlingException" ->
                              "Rate limit exceeded. Please try again later."
                        [] g.code = "ValidationException" -> "Invalid request parameters: "
                        [] g.code = "AccessDeniedException" ->
                              "Access denied. Please check your AWS permissions for Bedrock."
                        [] g.code = "ResourceNotFoundException" -> "Model "
                        [] OTHER -> "Bedrock API error ("

C19_Witness ==
    /\ call.op = "invoke_model" /\ Len(trace) = 2
    /\ trace[2].outcome.kind = "ClientError"
    /\ trace[2].outcome.code = "ValidationException"
    /\ ~ret.ok /\ ret.err.type = "ValueError"

C21_UnsafeHostRejected ==
    (call.op \in {"fetch_page_content", "detect_recipe"}) =>
       LET u      == call.url
           ats    == {i \in 1..Len(u.netloc) : u.netloc[i] = "@"}
           first  == IF ats = {} THEN 1
                     ELSE 1 + CHOOSE i \in ats : \A j \in ats : j <= i
           host   == SubSeq(u.netloc, first, Len(u.netloc))
           unsafe == \/ u.scheme \notin {"http", "https"}
                     \/ host = <<>>
                     \/ \E i \in 1..Len(host) : Lower(host[i]) \in PrivateHosts
           remote == {i \in 1..Len(trace) :
                         trace[i].ev \in {"rate_limit", "request", "invoke_detect"}}
       IN /\ unsafe => (~ret.ok /\ remote = {})
          /\ (~unsafe /\ call.op = "fetch_page_content") => remote # {}

\* C21 (amended): as above with the whole network location, user
\* information and port included, in place of the host.
C21_UnsafeNetlocRejected ==
    (call.op \in {"fetch_page_content", "detect_recipe"}) =>
       LET u      == call.url
           unsafe == \/ u.scheme \notin {"http", "https"}
                     \/ u.netloc = <<>>
                     \/ \E i \in 1..Len(u.netloc) : Lower(u.netloc[i]) \in PrivateHosts
           remote == {i \in 1..Len(trace) :
                         trace[i].ev \in {"rate_limit", "request", "invoke_detect"}}
       IN /\ unsafe => (~ret.ok /\ remote = {})
          /\ (~unsafe /\ call.op = "fetch_page_content") => remote # {}

C21_Witness ==
    /\ call.op = "detect_recipe" /\ call.url.netloc = <<"LOCALHOST">>
    /\ ~ret.ok /\ Len(trace) = 1 /\ trace[1].ev = "fetch" /\ ~trace[1].flag
    /\ scraper.last_request_time > 0

\* C22: with the preference auto the Japanese template is chosen exactly
\* when the text holds a Hiragana, Katakana or Kanji character (one is
\* enough, ASCII text gets the English template); the preferences ja and en
\* choose their template whatever the text holds.
C22_TemplateChoice ==
    \A language \in PromptLanguages :
       (arg.fn = "prompt_" \o language /\ res # NoRet) =>
          LET japanese == \E i \in 1..Len(arg.text) :
                             arg.text[i] \in {"kanji", "katakana", "hiragana"}
          IN /\ res.ok
             /\ res.val = CASE language = "ja" -> Str(<<"ja">>)
                            [] language = "en" -> Str(<<"en">>)
                            [] OTHER -> IF japanese THEN Str(<<"ja">>) ELSE Str(<<"en">>)

C22_Witness ==
    /\ arg.fn = "prompt_auto" /\ arg.text = <<"flour", "kanji", "flour">>
    /\ res.ok /\ res.val = Str(<<"ja">>)

\* C23: when the reply holds a well-formed JSON object, _parse_ai_response
\* returns the decoding of the first one, whatever precedes or follows it;
\* the keyword fallback answers only a reply without any such object.
C23_FirstObjectDecoded ==
    (arg.fn = "parse" /\ res # NoRet) =>
       LET text    == arg.text
           empties == {i \in 1..Len(text) - 1 : text[i] = "{" /\ text[i + 1] = "}"}
           fulls   == {i \in 1..Len(text) - 2 :
                          text[i] = "{" /\ text[i + 1] = "m" /\ text[i + 2] = "}"}
           objects == empties \cup fulls
           first   == CHOOSE i \in objects : \A j \in objects : i <= j
       IN IF objects = {} THEN res.val = fallback_parse_response(text)
          ELSE res.val = IF first \in empties THEN EmptyDict ELSE arg.members

\* C24: _extract_ingredient_sections returns the first 2000 characters of a
\* content without a header line; otherwise the first header line and the
\* lines after it, at most 100 lines in all and no line from before the
\* first header line.
C24_SectionCapped ==
    (arg.fn = "sections" /\ res # NoRet) =>
       LET lines   == SplitLines(arg.text)
           headers == {i \in 1..Len(lines) : IsHeaderLine(lines[i])}
           first   == CHOOSE i \in headers : \A j \in headers : i <= j
           out     == SplitLines(res.val.s)
       IN IF headers = {} THEN res.val.s = Prefix(arg.text, 2000)
          ELSE /\ Len(out) <= SectionLineCap
               /\ out = SubSeq(lines, first, first + Len(out) - 1)

\* C25: the request body of invoke_model carries exactly the max_tokens and
\* the temperature the caller supplied, for every temperature in [0, 1]
\* including 0; the configured defaults are used only for a parameter that
\* was not supplied.
C25_SuppliedParametersSent ==
    (arg.fn = "request" /\ res # NoRet) =>
       /\ res.val.max_tokens = IF Supplied(arg.members.max_tokens)
                               THEN arg.members.max_tokens[1] ELSE BEDROCK_MAX_TOKENS
       /\ res.val.temperature = IF Supplied(arg.members.temperature)
                                THEN arg.members.temperature[1] ELSE BEDROCK_TEMPERATURE

\* each of the two callers read last_request_time before the other wrote it
BothReadFirst(c, d) ==
    /\ callers.of[c].read_step < callers.of[d].write_step
    /\ callers.of[d].read_step < callers.of[c].write_step

Apart(a, b) == IF a < b THEN b - a ELSE a - b

\* C26: _rate_limit is not safe for concurrent callers. Two callers of
\* invoke_model on one instance stamp last_request_time less than
\* min_request_interval apart only in an interleaving where each of them read
\* last_request_time before the other wrote it; callers that go through
\* _rate_limit one after the other are kept min_request_interval apart. The
\* witness is the interleaving itself: neither caller slept and both requests
\* went out less than min_request_interval apart.
C26_CloseOnlyByRace ==
    callers # NoCallers =>
       \A c \in Callers : \A d \in Callers \ {c} :
          (/\ callers.of[c].write_step > 0
           /\ callers.of[d].write_step > 0
           /\ Apart(callers.of[c].stamp, callers.of[d].stamp) < min_request_interval)
          => BothReadFirst(c, d)

C26_Witness ==
    /\ callers # NoCallers
    /\ callers.of[1].pc = "done" /\ callers.of[2].pc = "done"
    /\ BothReadFirst(1, 2)
    /\ callers.of[1].sleep = 0 /\ callers.of[2].sleep = 0
    /\ Len(trace) = 2
    /\ trace[1].who # trace[2].who
    /\ Apart(trace[1].at, trace[2].at) < min_request_interval

\* a reply that _parse_ai_response hands to _fallback_parse_response
FallbackReply(reply) ==
    /\ reply.ok
    /\ LET span == re_search_braces(reply.text)
       IN span = <<>> \/ ~json_loads(span, reply.members).ok

\* C27: a detection obtained through the keyword fallback is never
\* positive: detect_recipe returns is_recipe = false for it (its confidence
\* 0.5 is below the threshold 0.7), and analyze_url and extract_ingredients
\* never go on to the extraction after a reply that is not JSON.
C27_FallbackNeverPositive ==
    \A i \in 1..Len(trace) :
       (trace[i].ev = "invoke_detect" /\ FallbackReply(trace[i].data))
          => /\ ret.ok
             /\ call.op = "detect_recipe" =>
                   /\ ~Truthy(ret.val.is_recipe)
                   /\ ret.val.confidence = 50
             /\ call.op # "detect_recipe" =>
                   /\ Len(trace) = i + 1
                   /\ trace[i + 1].ev = "detect_returned"
                   /\ ~trace[i + 1].flag
                   /\ ret.val.ingredients = <<>>

\* analyze_url stopped after a reply that is not JSON and holds a keyword
C27_Witness ==
    /\ call.op = "analyze_url"
    /\ Len(trace) = 3
    /\ trace[2].ev = "invoke_detect"
    /\ FallbackReply(trace[2].data)
    /\ ContainsKeyword(trace[2].data.text)
    /\ trace[3].ev = "detect_returned"
    /\ ~trace[3].flag
    /\ ret.ok

\* the last call was extract_ingredients, it stored no extraction itself, and
\* the extraction stored for its URL and language is less than cache_ttl old
ExtractionStillFresh ==
    /\ call.op = "extract_ingredients"
    /\ <<"extract", call.url, call.language>> \in DOMAIN stored
    /\ \A i \in 1..Len(stores) : stores[i].op # "extract"
    /\ now - stored[<<"extract", call.url, call.language>>].timestamp < cache_ttl

ExtractionServed ==
    ExtractionStillFresh
       => /\ ret = Ok(stored[<<"extract", call.url, call.language>>].data)
          /\ trace = <<>>
          /\ stores = <<>>

\* C28 as stated: a cached extraction is returned by every call of
\* extract_ingredients on the same URL and language made less than 3600 s
\* after it was stored, without detect_recipe, fetch or model call, also when
\* the detection entry has expired; and the detection entry of a URL and
\* language is always stored no later than an unexpired extraction entry.
C28_ServedAndDetectionOlder ==
    /\ ExtractionServed
    /\ \A url \in Urls, language \in Languages :
          LET D == get_cache_key(url, "detect_" \o language)
              E == get_cache_key(url, "extract_" \o language)
          IN (/\ D \in DOMAIN cache /\ E \in DOMAIN cache
              /\ CacheFresh(now, cache[E].timestamp))
                => cache[D].timestamp <= cache[E].timestamp

\* C28: a cached extraction is returned by every call of extract_ingredients
\* on the same URL and language made less than 3600 s after it was stored,
\* without detect_recipe, fetch or model call, whatever the state of the
\* detection entry; a call that stores both entries stores the detection
\* first.
C28_ServedWhateverDetection ==
    /\ ExtractionServed
    /\ \A i \in 1..Len(stores), j \in 1..Len(stores) :
          (/\ stores[i].op = "detect" /\ stores[j].op = "extract"
           /\ stores[i].url = stores[j].url /\ stores[i].language = stores[j].language)
             => i < j /\ stores[i].at <= stores[j].at

\* the extraction was served although the detection entry had expired
C28_Witness ==
    /\ ExtractionStillFresh
    /\ trace = <<>>
    /\ ret.ok
    /\ <<"detect", call.url, call.language>> \in DOMAIN stored
    /\ now - stored[<<"detect", call.url, call.language>>].timestamp >= cache_ttl
    /\ get_cache_key(call.url, "detect_" \o call.language) \in DOMAIN cache

\* the cache keys a call reads: its URL and language under both operations
LookedUp(c) ==
    {get_cache_key(c.url, op \o "_" \o c.language) : op \in {"detect", "extract"}}

\* C29: a cache hit changes nothing in the cache, and a read of a key never
\* removes or alters the entry of another key: over a call every entry keeps
\* its payload and creation time unless _set_cache stored its key in the call
\* or the call read the key after it expired; a result served from the cache
\* is the payload last stored, less than 3600 s after that store.
C29_ReadsLeaveCacheAlone ==
    [][(now' = now /\ call'.op \in {"detect_recipe", "extract_ingredients", "analyze_url"}) =>
         /\ \A K \in DOMAIN cache :
               \/ K \in DOMAIN cache' /\ cache'[K] = cache[K]
               \/ \E i \in 1..Len(stores') :
                     /\ K = get_cache_key(stores'[i].url,
                                          stores'[i].op \o "_" \o stores'[i].language)
                     /\ cache'[K].timestamp = now
               \/ /\ K \notin DOMAIN cache'
                  /\ K \in LookedUp(call')
                  /\ ~CacheFresh(now, cache[K].timestamp)
         /\ (trace' = <<>> /\ call'.op # "analyze_url") =>
               LET k == <<IF call'.op = "detect_recipe" THEN "detect" ELSE "extract",
                          call'.url, call'.language>>
               IN /\ cache' = cache
                  /\ k \in DOMAIN stored
                  /\ ret' = Ok(stored[k].data)
                  /\ now - stored[k].timestamp < cache_ttl]_vars

\* an extraction served from the cache while the expired detection entry of
\* the same URL stays in the cache
C29_Witness ==
    /\ call.op = "extract_ingredients"
    /\ trace = <<>>
    /\ ret.ok
    /\ <<"extract", call.url, call.language>> \in DOMAIN stored
    /\ CacheFresh(now, stored[<<"extract", call.url, call.language>>].timestamp)
    /\ get_cache_key(call.url, "detect_" \o call.language) \in DOMAIN cache
    /\ ~CacheFresh(now, cache[get_cache_key(call.url, "detect_" \o call.language)].timestamp)

\* the events of a call that use the retriever or the chain
Touches(tr) ==
    {i \in 1..Len(tr) : tr[i].ev \in {"qa_chain.invoke", "retriever.get_relevant_documents",
                                      "AttributeError"}}

\* C30: in every reachable state of a RAGService, _is_initialized = true
\* implies that retriever and qa_chain are set; whenever is_available() is
\* true the chain invoked and the retriever used are not None; after a failed
\* or skipped initialization is_available() is false and search_recipe,
\* test_connection and suggest_similar_recipes never touch retriever or chain.
C30_InitializedMeansBuilt ==
    /\ rag.is_initialized => (rag.retriever /\ rag.qa_chain)
    /\ is_available(rag) => (rag.retriever /\ rag.qa_chain)
    /\ \A i \in 1..Len(trace) : trace[i].ev # "AttributeError"
    /\ ~(rag.retriever /\ rag.qa_chain) =>
          /\ ~is_available(rag)
          /\ Touches(trace) = {}
          /\ call.op \in {"search_recipe", "test_connection", "suggest_similar_recipes"}
                => /\ ret.ok
                   /\ call.op = "search_recipe" => ret.val.error = "Service not available"
                   /\ call.op # "search_recipe" => ~ret.val.success

\* a call on an instance whose initialization failed after the retriever
\* was built, with every required setting present
C30_Witness ==
    /\ is_available_uninitialized(rag)
    /\ rag.retriever /\ ~rag.qa_chain /\ ~rag.is_initialized
    /\ call.op = "suggest_similar_recipes"
    /\ trace = <<>>
    /\ ~ret.val.success
====
